---- MODULE Spec2Model ----
(***************************************************************************)
(* A model of the lesson-authoring backend's coordination logic:           *)
(*   - ContentAnalyzer (pattern detectors + LLM classifier)                *)
(*   - VisualRouter (confidence/cost policy)                               *)
(*   - OutlinerAgent / ContentAgent (outline, per-slide fan-out)           *)
(*   - DifferentiationService (filter, fallback, per-slide rewrite)        *)
(*   - the deck router's generate_deck / modify_deck assembly              *)
(* Python None is the string "None"; a missing dict key is NoKey.          *)
(* A text is a sequence of lower-case tokens (joined by blanks in the      *)
(* program); the regular expressions of the source are tabulated per token.*)
(***************************************************************************)
EXTENDS Integers, Sequences, FiniteSets, TLC

None == "None"
NoKey == "<missing>"

\* ---------------------------------------------------------------- bounds
MaxTextLen == 2
MaxOutline == 2
MaxCoreDeck == 2
MaxLongDeck == 6
MaxSharedDeck == 3

\* fragments in the content given to an extraction helper
MaxFragments == 3
MaxDeckSlides == 2

\* items (data points, equations) of a visual_config, a content or a completion
MaxPoints == 2

\* ------------------------------------------------------ program constants
MinConfidenceThreshold == 60
\* cost_per_dalle_image = 0.04 USD, in cents
CostPerDalleImage == 4
QuickReturnConfidence == 90
QuickAgreeConfidence == 70
AgreementBoost == 10
MaxConfidence == 100
DefaultAiConfidence == 50
InvalidTypeConfidence == 30
MathEquationLimit == 5

\* generate_chart_config needs this many data points
MinChartPoints == 2

\* data_points[:10] and equations[:10] of the renderers' extraction helpers
DataPointLimit == 10
EquationLimit == 10

\* ------------------------------------------------------------- utilities
Range(s) == {s[i] : i \in DOMAIN s}

Min(a, b) == IF a <= b THEN a ELSE b

Max(a, b) == IF a >= b THEN a ELSE b

SeqsUpTo(S, n) == UNION {[1..k -> S] : k \in 0..n}

RECURSIVE SumSeq(_)
SumSeq(s) == IF s = <<>> THEN 0 ELSE s[1] + SumSeq(Tail(s))

Take(s, n) == SubSeq(s, 1, Min(n, Len(s)))

\* ------------------------------------------------------------------ texts
Vocab == {"e=mc^2", "sin(t)", "formula", "\\frac{a}{b}", "workflow", "cycle->",
          "rate:5", "2020:100", "plain"}

Titles == {<<>>, <<"formula">>, <<"rate:5">>, <<"e=mc^2">>}

Contents == SeqsUpTo(Vocab, MaxTextLen)

\* math_patterns, by family: 1 equality, 2 LaTeX, 3 exponent, 4 words, 5 trig/log
MathFamilies(tok) ==
    CASE tok = "e=mc^2" -> {1, 3}
      [] tok = "\\frac{a}{b}" -> {2}
      [] tok = "formula" -> {4}
      [] tok = "sin(t)" -> {5}
      [] OTHER -> {}

\* the flow_keywords that occur in the token
FlowKeywords(tok) ==
    CASE tok = "workflow" -> {"flow", "workflow"}
      [] tok = "cycle->" -> {"cycle", "->"}
      [] OTHER -> {}

\* the data_keywords that occur in the token
DataKeywords(tok) ==
    CASE tok = "rate:5" -> {"rate"}
      [] OTHER -> {}

\* len(re.findall(r'\d+', token))
NumberCount(tok) ==
    CASE tok = "e=mc^2" -> 1
      [] tok = "rate:5" -> 1
      [] tok = "2020:100" -> 2
      [] tok = "5" -> 1
      [] OTHER -> 0

\* r'([a-zA-Z]+\s*=\s*[^.]+)' starts in the token
StartsEquation(tok) == tok \in {"e=mc^2", "x = 1; y = 2; z = 3; w = 4;"}

\* r'(\\[a-z]+\{[^}]+\})' matches in the token
LatexCommands(tok) ==
    CASE tok = "\\frac{a}{b}" -> <<"\\frac{a}">>
      [] tok = "\\frac{a}{b} \\sqrt{c} \\vec{d}" -> <<"\\frac{a}", "\\sqrt{c}", "\\vec{d}">>
      [] OTHER -> <<>>

\* r'(\d{4}|\w+)\s*:\s*(\d+)' matches in the token
DataPointsOf(tok) ==
    CASE tok = "rate:5" -> <<[label |-> "rate", value |-> 5]>>
      [] tok = "2020:100" -> <<[label |-> "2020", value |-> 100]>>
      [] tok = "q1:10, q2:20, q3:30, q4:40" ->
           <<[label |-> "q1", value |-> 10], [label |-> "q2", value |-> 20],
             [label |-> "q3", value |-> 30], [label |-> "q4", value |-> 40]>>
      [] OTHER -> <<>>

\* r'(\w+)\s*[(\-]\s*(\d+(?:\.\d+)?)\s*([KMB%])?' matches in the token, the
\* value multiplied by its unit
ParenPointsOf(tok) ==
    CASE tok = "usa (350M), china (1B)" ->
           <<[label |-> "usa", value |-> 350 * 1000000],
             [label |-> "china", value |-> 1 * 1000000000]>>
      [] OTHER -> <<>>

\* r'\$\$?(.*?)\$\$?' matches in the token
DollarEquations(tok) ==
    CASE tok = "$a$ $b$ $c$ $d$" -> <<"a", "b", "c", "d">>
      [] OTHER -> <<>>

\* r'([a-zA-Z]\s*=\s*[^.;,\n]+)' matches in the token
SimpleEquations(tok) ==
    CASE tok = "x = 1; y = 2; z = 3; w = 4;" -> <<"x = 1", "y = 2", "z = 3", "w = 4">>
      [] OTHER -> <<>>

\* fragments of slide content for the extraction helpers: each holds matches
\* of one helper's patterns only, or of none
Fragments ==
    {"plain", "q1:10, q2:20, q3:30, q4:40", "usa (350M), china (1B)",
     "$a$ $b$ $c$ $d$", "x = 1; y = 2; z = 3; w = 4;",
     "\\frac{a}{b} \\sqrt{c} \\vec{d}"}

RECURSIVE FlatMap(_, _)
FlatMap(Op(_), s) == IF s = <<>> THEN <<>> ELSE Op(s[1]) \o FlatMap(Op, Tail(s))

\* -------------------------------------------------------- ContentAnalyzer
\* a metadata dict: the keys it holds and their values
EmptyMetadata ==
    [keys |-> {}, diagramType |-> None, chartType |-> None,
     equations |-> <<>>, dataPoints |-> <<>>]

\* visualConfig = None
NoneConfig == [EmptyMetadata EXCEPT !.keys = {None}]

\* no token of Vocab holds a timeline or a mind-map keyword
DetectDiagramType(text) == "flowchart"

\* the first pattern is greedy up to the next '.', and no token holds one:
\* its only match runs from the first equation token to the end of the content
ExtractMathMetadata(content) ==
    LET starts == {i \in DOMAIN content : StartsEquation(content[i])}
        first == CHOOSE i \in starts : \A j \in starts : i <= j
        basic == IF starts = {} THEN <<>>
                 ELSE <<SubSeq(content, first, Len(content))>>
        latex == FlatMap(LatexCommands, content)
        equations == basic \o latex
    IN [EmptyMetadata EXCEPT !.keys = {"equations"},
                             !.equations = Take(equations, MathEquationLimit)]

\* no token of Vocab holds 'trend', 'over time', 'percentage' or 'proportion'
ExtractChartMetadata(content) ==
    [EmptyMetadata EXCEPT !.keys = {"chartType", "dataPoints"},
                          !.chartType = "bar",
                          !.dataPoints = FlatMap(DataPointsOf, content)]

MathScore(text) == Cardinality(UNION {MathFamilies(t) : t \in Range(text)})

FlowScore(text) == Cardinality(UNION {FlowKeywords(t) : t \in Range(text)})

HasDataKeyword(text) == \E t \in Range(text) : DataKeywords(t) # {}

ContentNumberCount(content) == SumSeq([i \in DOMAIN content |-> NumberCount(content[i])])

Result(vt, conf, meta, why) ==
    [visualType |-> vt, confidence |-> conf, confIsNumber |-> TRUE,
     metadata |-> meta, reasoning |-> why]

\* _quick_detect's None (and a result not yet computed)
NoResult == Result(None, 0, EmptyMetadata, None)

\* the confidence formulas of the three detectors
MathConfidenceFlowBase(score) == Min(95, 60 + score * 5)

MathConfidence(score) == Min(95, 70 + score * 5)

FlowConfidence(score) == Min(90, 60 + score * 8)

ChartConfidence(numbers) == Min(90, 65 + Min(numbers, 5) * 5)

QuickDetectBest(title, content) ==
    LET text == title \o content
        math == IF MathScore(text) >= 2 THEN MathConfidence(MathScore(text)) ELSE 0
        flow == IF FlowScore(text) >= 2 THEN FlowConfidence(FlowScore(text)) ELSE 0
        data == IF ContentNumberCount(content) >= 3 /\ HasDataKeyword(text)
                THEN ChartConfidence(ContentNumberCount(content)) ELSE 0
    IN IF math > 0 /\ math >= flow /\ math >= data
       THEN Result("math", math, ExtractMathMetadata(content), "math notation")
       ELSE IF flow > 0 /\ flow >= data
       THEN Result("diagram", flow,
                   [EmptyMetadata EXCEPT !.keys = {"diagramType"},
                                         !.diagramType = DetectDiagramType(text)],
                   "flow indicators")
       ELSE IF data > 0
       THEN Result("chart", data, ExtractChartMetadata(content), "numerical data")
       ELSE NoResult

\* _quick_detect: the first detector that matches, or None
QuickDetect(title, content) ==
    LET text == title \o content
    IN IF MathScore(text) >= 2
       THEN Result("math", MathConfidence(MathScore(text)),
                   ExtractMathMetadata(content), "math notation")
       ELSE IF FlowScore(text) >= 2
       THEN Result("diagram", FlowConfidence(FlowScore(text)),
                   [EmptyMetadata EXCEPT !.keys = {"diagramType"},
                                         !.diagramType = DetectDiagramType(text)],
                   "flow indicators")
       ELSE IF ContentNumberCount(content) >= 3 /\ HasDataKeyword(text)
       THEN Result("chart", ChartConfidence(ContentNumberCount(content)),
                   ExtractChartMetadata(content), "numerical data")
       ELSE NoResult

ValidTypes == {"diagram", "chart", "math", "illustration", "none"}

\* what generate_json_completion can give the classifier: a failure, or a
\* JSON object whose visualType and confidence are present or not; a
\* confidence can be a JSON string instead of a number
LlmConfidences == {0, 59, 60, 85, 100}

LlmResponses ==
    {[ok |-> FALSE, visualType |-> NoKey, confKind |-> "missing", confidence |-> 0]}
    \cup [ok : {TRUE}, visualType : ValidTypes \cup {NoKey, "bogus"},
          confKind : {"number"}, confidence : LlmConfidences]
    \cup [ok : {TRUE}, visualType : ValidTypes \cup {NoKey, "bogus"},
          confKind : {"missing", "string"}, confidence : {0}]

\* no completion call was made
NoLlmResponse == [ok |-> FALSE, visualType |-> None, confKind |-> "missing", confidence |-> 0]

AiAnalyzeDefaults(resp) == Result("none", DefaultAiConfidence, EmptyMetadata, "AI analysis")

\* _ai_analyze after the completion call returned resp
AiAnalyze(resp) ==
    IF ~resp.ok
    THEN Result("none", 0, EmptyMetadata, "Analysis failed")
    ELSE LET vt0 == IF resp.visualType = NoKey THEN "none" ELSE resp.visualType
             isNum == resp.confKind # "string"
             conf0 == IF resp.confKind = "missing" THEN DefaultAiConfidence
                      ELSE resp.confidence
             valid == vt0 \in ValidTypes
         IN [visualType |-> IF valid THEN vt0 ELSE "none",
             confidence |-> IF valid THEN conf0 ELSE InvalidTypeConfidence,
             confIsNumber |-> IF valid THEN isNum ELSE TRUE,
             metadata |-> EmptyMetadata,
             reasoning |-> "AI analysis"]

\* analyze_slide needs the LLM unless the quick result reaches 90
QuickReturns(quick) == quick # NoResult /\ quick.confidence >= QuickReturnConfidence

QuickAgrees(quick, ai) ==
    /\ quick # NoResult
    /\ quick.confidence >= QuickAgreeConfidence
    /\ quick.visualType = ai.visualType

\* min(100, confidence + 10) raises TypeError on a string
BoostRaises(quick, ai) == QuickAgrees(quick, ai) /\ ~ai.confIsNumber

CombineAnalysisAnyType(quick, ai) ==
    IF quick # NoResult /\ quick.confidence >= QuickAgreeConfidence
    THEN [ai EXCEPT !.confidence = Min(MaxConfidence, ai.confidence + AgreementBoost)]
    ELSE ai

\* analyze_slide, second half: the AI result, boosted when both agree
CombineAnalysis(quick, ai) ==
    IF QuickAgrees(quick, ai)
    THEN [ai EXCEPT !.confidence = Min(MaxConfidence, ai.confidence + AgreementBoost)]
    ELSE ai

\* ------------------------------------------------------------ VisualRouter
Decision(vt, cfg, conf, by, cost, why) ==
    [visualType |-> vt, visualConfig |-> cfg, confidence |-> conf,
     generatedBy |-> by, estimatedCost |-> cost, reasoning |-> why]

RouteByTypeDiagramFallback(visual_type, metadata, confidence, enable_paid_services, why) ==
    CASE visual_type = "diagram" ->
           Decision("diagram", metadata, confidence, "mermaid", 0, why)
      [] visual_type = "chart" ->
           Decision("chart", metadata, confidence, "chartjs", 0, why)
      [] visual_type = "math" ->
           Decision("math", metadata, confidence, "latex", 0, why)
      [] visual_type = "illustration" ->
           IF enable_paid_services
           THEN Decision("illustration", metadata, confidence, "dalle3",
                         CostPerDalleImage, why)
           ELSE Decision("diagram", metadata, confidence, "mermaid", 0, why)
      [] OTHER -> Decision(None, NoneConfig, 0, None, 0, why)

RouteByType(visual_type, metadata, confidence, enable_paid_services, why) ==
    CASE visual_type = "diagram" ->
           Decision("diagram", metadata, confidence, "mermaid", 0, why)
      [] visual_type = "chart" ->
           Decision("chart", metadata, confidence, "chartjs", 0, why)
      [] visual_type = "math" ->
           Decision("math", metadata, confidence, "latex", 0, why)
      [] visual_type = "illustration" ->
           IF enable_paid_services
           THEN Decision("illustration", metadata, confidence, "dalle3",
                         CostPerDalleImage, why)
           ELSE Decision(None, NoneConfig, confidence, None, 0, why)
      [] OTHER -> Decision(None, NoneConfig, 0, None, 0, why)

\* confidence < threshold raises TypeError on a string
RouteRaises(analysis) == ~analysis.confIsNumber

RouteDecisionInclusive(analysis, enable_paid_services) ==
    IF analysis.confidence <= MinConfidenceThreshold \/ analysis.visualType = "none"
    THEN Decision(None, NoneConfig, analysis.confidence, None, 0, "Confidence too low")
    ELSE RouteByType(analysis.visualType, analysis.metadata, analysis.confidence,
                     enable_paid_services, analysis.reasoning)

\* route_slide once the analysis is known
RouteDecision(analysis, enable_paid_services) ==
    IF analysis.confidence < MinConfidenceThreshold \/ analysis.visualType = "none"
    THEN Decision(None, NoneConfig, analysis.confidence, None, 0, "Confidence too low")
    ELSE RouteByType(analysis.visualType, analysis.metadata, analysis.confidence,
                     enable_paid_services, analysis.reasoning)

NoDecision == Decision(None, NoneConfig, 0, None, 0, None)

\* ------------------------------------------------ lesson_schema enums
BloomLevels == {"REMEMBER", "UNDERSTAND", "APPLY", "ANALYZE", "EVALUATE", "CREATE"}

SlideTypes == {"INTRODUCTION", "CONCEPT", "ACTIVITY", "ASSESSMENT", "SUMMARY"}

\* dict.get(key, default)
Get(value, default) == IF value = NoKey THEN default ELSE value

\* gradeLevel strings: all ASCII digits, not all digits, or digits such as
\* a superscript two, which str.isdigit() accepts and int() rejects
GradeKinds == {"digits", "other", "superscript"}

\* int(grade) if grade.isdigit() else 8 raises ValueError
GradeRaises(grade) == grade = "superscript"

\* ----------------------------------------------------------- OutlinerAgent
Plan(title, slideType, bloom, objective) ==
    [title |-> title, slideType |-> slideType, bloom_level |-> bloom,
     objective |-> objective]

FallbackOutlineShort ==
    << Plan("Introduction to <topic>", "INTRODUCTION", "REMEMBER", "Define key terms"),
       Plan("Key Concepts", "CONCEPT", "UNDERSTAND", "Explain main ideas"),
       Plan("Summary", "SUMMARY", "CREATE", "Synthesize learning") >>

\* the fallback outline of create_outline's except branch
FallbackOutline ==
    << Plan("Introduction to <topic>", "INTRODUCTION", "REMEMBER", "Define key terms"),
       Plan("Key Concepts", "CONCEPT", "UNDERSTAND", "Explain main ideas"),
       Plan("Application", "ACTIVITY", "APPLY", "Apply knowledge"),
       Plan("Summary", "SUMMARY", "CREATE", "Synthesize learning") >>

\* the outline entries (JSON objects) the completion service can return:
\* complete ones, one without objective, one without title, one with values
\* outside the enumerations, one without slideType and bloom_level
PlanPool ==
    { Plan("Intro", "INTRODUCTION", "REMEMBER", "obj"),
      Plan("Wrap", "SUMMARY", "CREATE", "obj"),
      Plan("NoObjective", "CONCEPT", "UNDERSTAND", NoKey),
      Plan(NoKey, "ACTIVITY", "APPLY", "obj"),
      Plan("Odd", "LECTURE", "MASTER", "obj"),
      Plan("Bare", NoKey, NoKey, "obj") }

\* what generate_json_completion can give create_outline: an API error, a
\* JSON parse error, an object without 'slides', one whose 'slides' is null,
\* or one with a list of entries
OutlineResponses ==
    [kind : {"api_error", "parse_error", "no_slides_key", "slides_null"}, slides : {<<>>}]
    \cup [kind : {"slides"}, slides : SeqsUpTo(PlanPool, MaxOutline)]

OutlineCallFailed(kind) == kind \in {"api_error", "parse_error", "slides_null"}

\* retrieve_relevant_standards: get_curriculum_rag() raises, no standard,
\* standards with string ids, or a standard whose id is None (join raises)
RagOutcomes == {"raised", "empty", "found", "null_id"}

StandardsOf(outcome) == IF outcome = "found" THEN <<"S1">> ELSE <<>>

\* bloom_order.index(level); -1 stands for the ValueError of a level that
\* is not in the list
BloomIndex(level) ==
    CASE level = "REMEMBER" -> 0 [] level = "UNDERSTAND" -> 1 [] level = "APPLY" -> 2
      [] level = "ANALYZE" -> 3 [] level = "EVALUATE" -> 4 [] level = "CREATE" -> 5
      [] OTHER -> -1

Warning(at, kind) == [at |-> at, kind |-> kind]

\* if curr_idx < prev_idx - 1
WarnsOnRegression(prev_idx, curr_idx) == curr_idx < prev_idx - 1

\* _validate_bloom_progression: the warnings of the loop over i in
\* range(1, len(slides)), at the 0-based index of the later slide
ProgressionWarnings(slides) ==
    UNION { LET prev_idx == BloomIndex(Get(slides[i].bloom_level, "UNDERSTAND"))
                curr_idx == BloomIndex(Get(slides[i + 1].bloom_level, "UNDERSTAND"))
            IN IF prev_idx = -1 \/ curr_idx = -1 THEN {Warning(i, "invalid")}
               ELSE IF WarnsOnRegression(prev_idx, curr_idx) THEN {Warning(i, "regression")}
               ELSE {}
          : i \in 1..(Len(slides) - 1) }

\* the warnings of one create_outline call: the validation runs on the
\* slides list of a parsed response
LoggedWarnings(resp) ==
    IF resp.kind \in {"slides", "no_slides_key"} THEN ProgressionWarnings(resp.slides) ELSE {}

\* create_outline's try block: slides, or the fallback when it raises;
\* len(None) raises in _validate_bloom_progression
CreateOutlineResult(resp) ==
    CASE resp.kind \in {"api_error", "parse_error"} -> FallbackOutline
      [] resp.kind = "slides_null" -> FallbackOutline
      [] resp.kind = "no_slides_key" -> <<>>
      [] OTHER -> resp.slides

\* ------------------------------------------------------------ ContentAgent
PlaceholderContent == "Content generation in progress. Please regenerate this slide."

StreamOutcomes == {"ok", "error"}

\* ''.join of stream_completion's chunks: the text, or the text of the
\* exception that stream_completion turns into a chunk
StreamText(outcome, text) == IF outcome = "ok" THEN text ELSE "Error: <exception>"

DefaultTitle(index) == "Slide " \o ToString(index + 1)

SlideDict(title, content, order, slideType, bloom, notes, image, objective) ==
    [title |-> title, content |-> content, order |-> order, slideType |-> slideType,
     bloom_level |-> bloom, speakerNotes |-> notes, imageQuery |-> image,
     objective |-> objective]

NoSlide == SlideDict(None, None, -1, None, None, None, None, None)

\* generate_slide_content reads slide_outline['title'] and ['objective']
PlanRaises(plan) == plan.title = NoKey \/ plan.objective = NoKey

PlaceholderSlideRaw(plan, index) ==
    SlideDict(Get(plan.title, DefaultTitle(index)), "Error: <exception>", index,
              Get(plan.slideType, "CONCEPT"), Get(plan.bloom_level, "UNDERSTAND"),
              "", None, Get(plan.objective, ""))

\* generate_single_slide's except branch
PlaceholderSlide(plan, index) ==
    SlideDict(Get(plan.title, DefaultTitle(index)), PlaceholderContent, index,
              Get(plan.slideType, "CONCEPT"), Get(plan.bloom_level, "UNDERSTAND"),
              "", None, Get(plan.objective, ""))

\* generate_single_slide's return on success
SuccessSlide(plan, index, content, notes, image) ==
    SlideDict(Get(plan.title, DefaultTitle(index)), content, index,
              Get(plan.slideType, "CONCEPT"), Get(plan.bloom_level, "UNDERSTAND"),
              notes, image, Get(plan.objective, ""))

Task(pc, raised, content, notes, image, result) ==
    [pc |-> pc, raised |-> raised, content |-> content, notes |-> notes,
     image |-> image, result |-> result]

LaunchTaskUncaught(plan, index) ==
    IF PlanRaises(plan)
    THEN Task("raised", TRUE, None, None, None, NoSlide)
    ELSE Task("content_wait", FALSE, None, None, None, NoSlide)

\* a task runs to its first await, or raises KeyError before it
LaunchTask(plan, index) ==
    IF PlanRaises(plan)
    THEN Task("done", TRUE, None, None, None, PlaceholderSlide(plan, index))
    ELSE Task("content_wait", FALSE, None, None, None, NoSlide)

\* some task is done while the task of an earlier entry is not
OutOfOrder(tasks) ==
    \E i, j \in DOMAIN tasks : i < j /\ tasks[j].pc = "done" /\ tasks[i].pc # "done"

GatherResultsReversed(tasks) == [i \in DOMAIN tasks |-> tasks[Len(tasks) + 1 - i].result]

\* asyncio.gather(*tasks): the results in the order of the tasks
GatherResults(tasks) == [i \in DOMAIN tasks |-> tasks[i].result]

\* -------------------------------------------------- DifferentiationService
DiffLevels == {"SUPPORT", "CORE", "EXTENSION"}

\* a Slide object of a LessonDeck
DeckSlide(title, content, order, bloom, notes) ==
    [title |-> title, content |-> content, order |-> order, bloom_level |-> bloom,
     speakerNotes |-> notes]

\* the Bloom levels of the core decks: every sequence up to MaxCoreDeck, and
\* longer ones over two levels, one on each side of the filter
CoreLevelSeqs ==
    SeqsUpTo(BloomLevels, MaxCoreDeck)
    \cup UNION {[1..k -> {"UNDERSTAND", "APPLY"}] : k \in 3..MaxLongDeck}

\* a core deck as generate_all_slides_parallel and the endpoints build it
CoreDeckOf(levels) ==
    [topic |-> "topic",
     bloom_progression |-> levels,
     slides |-> [i \in DOMAIN levels |->
                   DeckSlide("S" \o ToString(i), "content", i - 1, levels[i], "notes")]]

IsCoreLevelNever(level) == level = "NONE"

\* target_level == DifferentiationLevel.CORE
IsCoreLevel(level) == level = "CORE"

AllowedLevelsWide(level) ==
    IF level = "SUPPORT" THEN {"REMEMBER", "UNDERSTAND", "APPLY"}
    ELSE {"APPLY", "ANALYZE", "EVALUATE", "CREATE"}

\* allowed_levels of _filter_slides_by_bloom
AllowedLevels(level) ==
    IF level = "SUPPORT" THEN {"REMEMBER", "UNDERSTAND"}
    ELSE {"APPLY", "ANALYZE", "EVALUATE", "CREATE"}

BloomFiltered(slides, level) ==
    SelectSeq(slides, LAMBDA sl : sl.bloom_level \in AllowedLevels(level))

\* the filter falls back to slides[:5]
FilterFallsBack(slides, level) ==
    level # "CORE" /\ Len(BloomFiltered(slides, level)) < 2

FilterSlidesByBloom(slides, level) ==
    IF level = "CORE" THEN slides
    ELSE IF Len(BloomFiltered(slides, level)) < 2 THEN Take(slides, 5)
    ELSE BloomFiltered(slides, level)

DifferentiationNote(level) ==
    CASE level = "SUPPORT" -> "SUPPORT Level: Simplified vocabulary"
      [] level = "EXTENSION" -> "EXTENSION Level: Advanced content"
      [] OTHER -> "CORE Level: Standard grade-level content."

\* slide.model_copy(update={content, speakerNotes}); the new content is the
\* joined stream, error chunk included
DifferentiatedSlide(slide, level, outcome) ==
    [slide EXCEPT !.content = StreamText(outcome, "rewritten"),
                  !.speakerNotes = DifferentiationNote(level)]

DiffTask(pc, outcome, slide, result) ==
    [pc |-> pc, outcome |-> outcome, slide |-> slide, result |-> result]

\* differentiate_slide_content up to its first await: CORE returns the
\* slide, int(grade) may raise inside the try, else the stream is awaited
LaunchRewrite(slide, level, grade) ==
    IF level = "CORE" THEN DiffTask("done", "core", slide, slide)
    ELSE IF GradeRaises(grade) THEN DiffTask("done", "raised", slide, slide)
    ELSE DiffTask("wait", None, slide, slide)

DerivedTopic(topic, level) == topic \o " (" \o level \o " Level)"

\* the LessonDeck generate_differentiated_deck builds
DerivedDeck(core, level, slides) ==
    [topic |-> DerivedTopic(core.topic, level),
     bloom_progression |-> [i \in DOMAIN slides |-> slides[i].bloom_level],
     slides |-> slides]

NoDeck == [topic |-> None, bloom_progression |-> <<>>, slides |-> <<>>]

\* ----------------------------------------- generate_deck and modify_deck
\* a slide object of the completion's JSON: title and order may be absent;
\* content is a string (one item), a list of strings, an object with one
\* key (its value is the item), a number (the item is its digits), or absent
Entry(hasTitle, contentKind, content, hasOrder, order) ==
    [hasTitle |-> hasTitle, title |-> IF hasTitle THEN <<"plain">> ELSE <<>>,
     contentKind |-> contentKind, content |-> content,
     hasOrder |-> hasOrder, order |-> order]

DeckOrders == {0, 1, 2}

DeckEntries ==
    {Entry(TRUE, "str", << <<"plain">> >>, TRUE, o) : o \in DeckOrders}
    \cup { Entry(TRUE, "str", << <<"plain">> >>, FALSE, 0),
           Entry(TRUE, "list", << <<"e=mc^2", "\\frac{a}{b}">>, <<"formula">> >>, TRUE, 1),
           Entry(TRUE, "list", << <<"workflow">>, <<"cycle->">> >>, TRUE, 1),
           Entry(TRUE, "dict", << <<"plain">> >>, TRUE, 1),
           Entry(TRUE, "number", << <<"5">> >>, TRUE, 1),
           Entry(FALSE, "str", << <<"workflow">> >>, TRUE, 1),
           Entry(TRUE, "missing", <<>>, TRUE, 1) }

\* what generate_json_completion can give the endpoints
DeckResponses ==
    {[ok |-> FALSE, hasTitle |-> FALSE, hasSlides |-> FALSE, slides |-> <<>>],
     [ok |-> TRUE, hasTitle |-> TRUE, hasSlides |-> FALSE, slides |-> <<>>]}
    \cup [ok : {TRUE}, hasTitle : BOOLEAN, hasSlides : {TRUE},
          slides : SeqsUpTo(DeckEntries, MaxDeckSlides)]

NoDeckResponse == [ok |-> FALSE, hasTitle |-> FALSE, hasSlides |-> FALSE, slides |-> <<>>]

\* the completions the classifier gets inside a deck request
DeckLlmResponses ==
    { [ok |-> FALSE, visualType |-> NoKey, confKind |-> "missing", confidence |-> 0],
      [ok |-> TRUE, visualType |-> "diagram", confKind |-> "number", confidence |-> 85],
      [ok |-> TRUE, visualType |-> "chart", confKind |-> "number", confidence |-> 59],
      [ok |-> TRUE, visualType |-> "math", confKind |-> "string", confidence |-> 0] }

\* "\n".join(items)
RECURSIVE JoinLines(_)
JoinLines(items) ==
    IF items = <<>> THEN <<>>
    ELSE IF Len(items) = 1 THEN items[1]
    ELSE items[1] \o <<"\n">> \o JoinLines(Tail(items))

\* json.dumps of an object with the one key k
JsonDumps(items) == <<"{\"k\": \"">> \o items[1] \o <<"\"}">>

\* Slide.serialize_content; an absent content is the caller's default ""
ContentString(entry) ==
    CASE entry.contentKind = "str" -> entry.content[1]
      [] entry.contentKind = "list" -> JoinLines(entry.content)
      [] entry.contentKind = "dict" -> JsonDumps(entry.content)
      [] entry.contentKind = "number" -> entry.content[1]
      [] OTHER -> <<>>

\* generate_deck's sanitising of slide.get("content", "")
SanitizeContent(entry) ==
    CASE entry.contentKind = "list" -> JoinLines(entry.content)
      [] entry.contentKind = "dict" -> JsonDumps(entry.content)
      [] entry.contentKind = "missing" -> <<>>
      [] OTHER -> entry.content[1]

\* a {title, content} pair: a string content is the one item of items, any
\* other value keeps its kind and its items
Pair(title, contentKind, items) ==
    [title |-> title, contentKind |-> contentKind, items |-> items]

\* slides_for_routing: generate_deck sanitises the content, modify_deck
\* passes slide["content"] as it is
RoutingSlide(kind, entry) ==
    IF kind = "generate"
    THEN Pair(entry.title, "str", << SanitizeContent(entry) >>)
    ELSE Pair(entry.title, entry.contentKind, entry.content)

\* the tokens of f"{title} {content}" for a pair
PairText(pair) == pair.title \o FlatMap(LAMBDA item : item, pair.items)

\* _quick_detect on a content that is not a string: re.findall raises
\* TypeError in _extract_math_metadata and in the number count, so that
\* only the flow branch can return
QuickDetectRaises(pair) ==
    /\ pair.contentKind # "str"
    /\ ~(MathScore(PairText(pair)) < 2 /\ FlowScore(PairText(pair)) >= 2)

\* _quick_detect of a pair
QuickDetectPair(pair) ==
    IF pair.contentKind = "str" THEN QuickDetect(pair.title, pair.items[1])
    ELSE Result("diagram", FlowConfidence(FlowScore(PairText(pair))),
                [EmptyMetadata EXCEPT !.keys = {"diagramType"},
                                      !.diagramType = DetectDiagramType(PairText(pair))],
                "flow indicators")

\* modify_deck reads slide["title"] and slide["content"]
RoutingRaises(kind, entry) ==
    kind = "modify" /\ (~entry.hasTitle \/ entry.contentKind = "missing")

\* generate_visual's result, and batch_generate_visuals' placeholder; the
\* placeholder and a successful result carry no 'error' key
VisualResult(success, skipped, type, error) ==
    [success |-> success, skipped |-> skipped, type |-> type,
     data |-> IF success THEN "data of " \o type ELSE None,
     error |-> error]

SkippedVisualAsFailure == VisualResult(FALSE, FALSE, None, "No visual type determined")

SkippedVisual == VisualResult(FALSE, TRUE, None, NoKey)

RenderOutcomes == {"ok", "failed"}

RendererOf(visual_type) ==
    CASE visual_type = "diagram" -> "mermaid"
      [] visual_type = "chart" -> "chart"
      [] visual_type = "math" -> "latex"
      [] OTHER -> visual_type

\* the types generate_visual has a branch for
RenderedTypes == {"diagram", "chart", "math"}

\* the types generate_visual is called with: its three branches, the type
\* the router gives under paid services, and a type no branch knows
VisualTypes == RenderedTypes \cup {"illustration", "hologram"}

\* visual_config: None, or a dict with this many dataPoints and equations
VisualConfigs ==
    {[isDict |-> FALSE, dataPoints |-> 0, equations |-> 0]} \cup
    {[isDict |-> TRUE, dataPoints |-> d, equations |-> e] :
        d \in 0..MaxPoints, e \in 0..MaxPoints}

\* what generate_json_completion gives a renderer: an exception, or a JSON
\* object with or without mermaidCode, with this many dataPoints or
\* equations, each data point with or without its label and value keys
RenderLlmResponses ==
    {[ok |-> FALSE, hasCode |-> FALSE, items |-> 0, shaped |-> TRUE]} \cup
    {[ok |-> TRUE, hasCode |-> c, items |-> n, shaped |-> sh] :
        c \in BOOLEAN, n \in 0..MaxPoints, sh \in BOOLEAN}

\* a renderer's dict, of which generate_visual reads 'success'
RendererResult(success) == [returned |-> TRUE, success |-> success]

\* no renderer was called
NoRendererResult == [returned |-> FALSE, success |-> FALSE]

\* the items a renderer has before it asks the completion service: those of
\* visual_config, else those its own patterns find in the content
ItemsBeforeLlm(visual_type, config, found) ==
    LET given == IF visual_type = "chart" THEN config.dataPoints ELSE config.equations
    IN IF given > 0 THEN given ELSE found

\* the renderer calls generate_json_completion: the diagram renderer
\* always, the other two when they have no item
NeedsCompletion(visual_type, config, found) ==
    \/ visual_type = "diagram"
    \/ visual_type \in {"chart", "math"} /\ ItemsBeforeLlm(visual_type, config, found) = 0

\* generate_chart_config from its data points on: fewer than two raise
\* ValueError, a point without label raises KeyError in _build_chart_config,
\* and the except branch turns both into success False
ChartResult(points, shaped) == RendererResult(points >= MinChartPoints /\ shaped)

\* generate_latex_math from its equations on
MathResult(equations) == RendererResult(equations > 0)

\* generate_mermaid_diagram after its completion call
MermaidResult(resp) == RendererResult(resp.ok /\ resp.hasCode)

\* a renderer that needs no completion call
RendererNow(visual_type, config, found) ==
    IF visual_type = "chart"
    THEN ChartResult(ItemsBeforeLlm(visual_type, config, found), TRUE)
    ELSE MathResult(ItemsBeforeLlm(visual_type, config, found))

\* a renderer after its completion call; _ai_extract_data and
\* _ai_convert_to_latex return [] when the call raises
RendererAfterLlm(visual_type, resp) ==
    CASE visual_type = "diagram" -> MermaidResult(resp)
      [] visual_type = "chart" -> ChartResult(IF resp.ok THEN resp.items ELSE 0, resp.shaped)
      [] visual_type = "math" -> MathResult(IF resp.ok THEN resp.items ELSE 0)

Raised(error) == [raised |-> TRUE, error |-> error, value |-> None]

Returned(value) == [raised |-> FALSE, error |-> NoKey, value |-> value]

FailureMessage(visual_type) ==
    CASE visual_type = "diagram" -> "Mermaid generation failed"
      [] visual_type = "chart" -> "Chart generation failed"
      [] visual_type = "math" -> "LaTeX generation failed"

\* the try body of generate_visual before its renderer is awaited: a type
\* without branch raises ValueError, visual_config.get on None raises
\* AttributeError
BodyBeforeRenderer(visual_type, config) ==
    IF visual_type \notin RenderedTypes
    THEN Raised("Unknown visual type: " \o visual_type)
    ELSE IF ~config.isDict
    THEN Raised("'NoneType' object has no attribute 'get'")
    ELSE Returned(None)

BodyAfterRendererTrusting(visual_type, rendered) ==
    Returned(VisualResult(TRUE, FALSE, RendererOf(visual_type), NoKey))

\* the try body of generate_visual after its renderer returned
BodyAfterRenderer(visual_type, rendered) ==
    IF rendered.success
    THEN Returned(VisualResult(TRUE, FALSE, RendererOf(visual_type), NoKey))
    ELSE Raised(FailureMessage(visual_type))

\* generate_visual's except branch around its body
CatchVisual(visual_type, body) ==
    IF body.raised
    THEN VisualResult(FALSE, FALSE, visual_type, body.error)
    ELSE body.value

\* generate_visual for a routed slide whose renderer ended with this outcome
GenerateVisual(route, outcome) ==
    CatchVisual(route.visualType,
                BodyAfterRenderer(route.visualType, RendererResult(outcome = "ok")))

NoVisualMetadata ==
    [visualType |-> None, visualConfig |-> NoneConfig, generatedData |-> None,
     confidence |-> 0, generatedBy |-> None, reasoning |-> None]

VisualMetadataOfRouted(route, result) ==
    IF route.visualType # None
    THEN [visualType |-> route.visualType, visualConfig |-> route.visualConfig,
          generatedData |-> result.data, confidence |-> route.confidence,
          generatedBy |-> route.generatedBy, reasoning |-> route.reasoning]
    ELSE NoVisualMetadata

\* visual_metadata of the assembly loop
VisualMetadataOf(route, result) ==
    IF route.visualType # None /\ result.success
    THEN [visualType |-> route.visualType, visualConfig |-> route.visualConfig,
          generatedData |-> result.data, confidence |-> route.confidence,
          generatedBy |-> route.generatedBy, reasoning |-> route.reasoning]
    ELSE NoVisualMetadata

\* generate_deck reads slide_data["title"], ["content"] and ["order"]
AssemblyRaises(kind, entry) ==
    kind = "generate" /\ (~entry.hasTitle \/ entry.contentKind = "missing" \/ ~entry.hasOrder)

\* Slide(title, content, order, visualMetadata); modify_deck's defaults
AssembledSlide(entry, route, result) ==
    [title |-> IF entry.hasTitle THEN entry.title ELSE <<"Untitled">>,
     content |-> ContentString(entry),
     order |-> IF entry.hasOrder THEN entry.order ELSE 0,
     visualMetadata |-> VisualMetadataOf(route, result)]

\* the slides assembled before the loop raises, or all of them
AssembledPrefix(kind, entries) ==
    LET bad == {i \in DOMAIN entries : AssemblyRaises(kind, entries[i])}
    IN IF bad = {} THEN Len(entries)
       ELSE (CHOOSE i \in bad : \A j \in bad : i <= j) - 1

\* ------------------------------------------------------------------ state
VARIABLES
    kKind,                     \* "generate" or "modify"
    kHasTopics,                \* the request names a topic
    kPc,                       \* "idle", "start", "llm_wait", "routing", "rendering",
                               \* "failed"
    kResult,                   \* the completion's JSON
    kFor,                      \* slides_for_routing
    kRoutes,                   \* visual_routes so far
    kVisuals,                  \* visual_results so far
    kInvoked,                  \* per result: generate_visual was called for the slide
    kSlides,                   \* enriched_slides / updated_slides
    kFailure,                  \* what the except branch caught
    kPaid,                     \* batch_route_slides' enable_paid_services
    kTotalCost,                \* batch_route_slides' total_cost

    dCore,                     \* the core deck
    dLevel,                    \* the target level
    dGrade,                    \* core_deck.meta.grade (its kind)
    dPc,                       \* "idle", "start", "gathering", "done"
    dFilterLog,                \* what _filter_slides_by_bloom logged
    dFilterCalls,              \* calls of _filter_slides_by_bloom
    dRewriteCalls,             \* calls of differentiate_slide_content
    dTasks,                    \* the rewrite tasks, by position
    dResult,                   \* the deck generate_differentiated_deck returns

    pGrade,                    \* the request's gradeLevel (its kind)
    pPc,                       \* "idle", "start", "rag_wait", "llm_wait", "outlined",
                               \* "gathering", "slides_done", "failed"
    pRag,                      \* how the standards retrieval ended
    pStandards,                \* create_outline's standards
    pLlm,                      \* how create_outline's completion call ended
    pGenerated,                \* the slides list of the completion's JSON
    pWarnings,                 \* warnings logged by _validate_bloom_progression
    pOutline,                  \* create_outline's result
    pTasks,                    \* generate_single_slide tasks, by position
    pSlides,                   \* generate_all_slides_parallel's result
    pOutOfOrder,               \* a task ended before the task of an earlier entry

    rTitle, rContent, rPaid,   \* route_slide's arguments
    rPc,                       \* "idle", "start", "ai_wait", "done", "raised"
    rQuick,                    \* quick_result
    rAnalysis,                 \* analyze_slide's result
    rLlmCalls,                 \* calls of generate_json_completion by _ai_analyze
    rDecision,                 \* route_slide's result
    rLlm,                      \* how _ai_analyze's completion call ended
    rResp,                     \* what the completion call gave _ai_analyze

    gType, gConfig,            \* generate_visual's visual_type and visual_config
    gFound,                    \* items the renderer's patterns find in the content
    gPc,                       \* "idle", "start", "llm_wait", "done", "raised"
    gLlmCalls,                 \* completion calls of the renderer
    gRendered,                 \* the renderer's result
    gResult,                   \* generate_visual's result

    eKind,                     \* the endpoint: "complete" or "all_levels"
    ePc,                       \* "idle", "pipeline", "deriving", "done", "failed"
    eDeck,                     \* the LessonDeck the endpoint built

    xLevels,                   \* the Bloom levels the core deck was built with
    xGrade,                    \* core_deck.meta.grade (its kind)
    xHeap,                     \* the Slide objects, by address
    xCore,                     \* core_deck: its slides are addresses
    xDer,                      \* support_task and extension_task, by target level
    xPc,                       \* "idle", "gathering", "done"

    hContent,                  \* the content an extraction helper is called with
    hPc,                       \* "idle", "start", "done"
    hHelper,                   \* the helper that was called
    hResult                    \* the list it returned

routeVars == <<rTitle, rContent, rPaid, rPc, rQuick, rAnalysis, rLlmCalls, rDecision,
               rLlm, rResp>>

pipeVars == <<pGrade, pPc, pRag, pStandards, pLlm, pGenerated, pWarnings, pOutline, pTasks,
              pSlides,
              pOutOfOrder>>

diffVars == <<dCore, dLevel, dGrade, dPc, dFilterLog, dFilterCalls, dRewriteCalls,
              dTasks, dResult>>

deckVars == <<kKind, kHasTopics, kPc, kResult, kFor, kRoutes, kVisuals, kInvoked, kSlides, kFailure,
              kPaid, kTotalCost>>

visualVars == <<gType, gConfig, gFound, gPc, gLlmCalls, gRendered, gResult>>

endpointVars == <<eKind, ePc, eDeck>>

sharedVars == <<xLevels, xGrade, xHeap, xCore, xDer, xPc>>

extractVars == <<hContent, hPc, hHelper, hResult>>

vars == <<routeVars, pipeVars, diffVars, deckVars, visualVars, endpointVars, sharedVars,
          extractVars>>

RouteIdle ==
    /\ rTitle = <<>> /\ rContent = <<>> /\ rPaid = FALSE /\ rPc = "idle"
    /\ rQuick = NoResult /\ rAnalysis = NoResult /\ rLlmCalls = 0
    /\ rDecision = NoDecision /\ rLlm = None /\ rResp = NoLlmResponse

PipeIdle ==
    /\ pGrade = "digits" /\ pPc = "idle" /\ pRag = None /\ pStandards = <<>>
    /\ pLlm = None /\ pGenerated = <<>> /\ pWarnings = {}
    /\ pOutline = <<>> /\ pTasks = <<>> /\ pSlides = <<>>
    /\ pOutOfOrder = FALSE

DiffIdle ==
    /\ dCore = NoDeck /\ dLevel = "CORE" /\ dGrade = "digits" /\ dPc = "idle"
    /\ dFilterLog = None /\ dFilterCalls = 0 /\ dRewriteCalls = 0
    /\ dTasks = <<>> /\ dResult = NoDeck

DeckIdle ==
    /\ kKind = "generate" /\ kHasTopics = TRUE /\ kPc = "idle"
    /\ kResult = NoDeckResponse /\ kFor = <<>> /\ kRoutes = <<>>
    /\ kVisuals = <<>> /\ kInvoked = <<>> /\ kSlides = <<>> /\ kFailure = None
    /\ kPaid = FALSE /\ kTotalCost = 0

VisualIdle ==
    /\ gType = None /\ gConfig = None /\ gFound = 0 /\ gPc = "idle"
    /\ gLlmCalls = 0 /\ gRendered = NoRendererResult /\ gResult = None

EndpointIdle == eKind = None /\ ePc = "idle" /\ eDeck = NoDeck

ExtractIdle == hContent = <<>> /\ hPc = "idle" /\ hHelper = None /\ hResult = <<>>

SharedIdle ==
    /\ xLevels = <<>> /\ xGrade = "digits" /\ xHeap = <<>> /\ xCore = NoDeck
    /\ xDer = <<>> /\ xPc = "idle"

InitRoute ==
    /\ PipeIdle /\ DiffIdle /\ DeckIdle /\ VisualIdle /\ EndpointIdle /\ SharedIdle /\ ExtractIdle
    /\ rTitle \in Titles
    /\ rContent \in Contents
    /\ rPaid \in BOOLEAN
    /\ rPc = "start"
    /\ rQuick = NoResult /\ rAnalysis = NoResult /\ rLlmCalls = 0
    /\ rDecision = NoDecision /\ rLlm = None /\ rResp = NoLlmResponse

\* route_slide whose analysis returns from the pattern path
RouteSlideQuick ==
    /\ rPc = "start"
    /\ QuickReturns(QuickDetect(rTitle, rContent))
    /\ rQuick' = QuickDetect(rTitle, rContent)
    /\ rAnalysis' = rQuick'
    /\ rDecision' = RouteDecision(rAnalysis', rPaid)
    /\ rPc' = "done"
    /\ UNCHANGED <<rTitle, rContent, rPaid, rLlmCalls, rLlm, rResp>>
    /\ UNCHANGED <<pipeVars, diffVars, deckVars, visualVars, endpointVars, sharedVars, extractVars>>

\* route_slide up to the await of the completion call in _ai_analyze
RouteSlideCallAI ==
    /\ rPc = "start"
    /\ ~QuickReturns(QuickDetect(rTitle, rContent))
    /\ rQuick' = QuickDetect(rTitle, rContent)
    /\ rLlmCalls' = rLlmCalls + 1
    /\ rPc' = "ai_wait"
    /\ UNCHANGED <<rTitle, rContent, rPaid, rAnalysis, rDecision, rLlm, rResp>>
    /\ UNCHANGED <<pipeVars, diffVars, deckVars, visualVars, endpointVars, sharedVars, extractVars>>

\* the completion call returns (or fails) and route_slide runs to its end
RouteSlideAIReturn ==
    /\ rPc = "ai_wait"
    /\ \E resp \in LlmResponses :
         LET ai == AiAnalyze(resp)
         IN /\ rLlm' = IF resp.ok THEN "returned" ELSE "error"
            /\ rResp' = resp
            /\ IF BoostRaises(rQuick, ai) \/ RouteRaises(ai)
               THEN /\ rPc' = "raised"
                    /\ UNCHANGED <<rAnalysis, rDecision>>
               ELSE /\ rAnalysis' = CombineAnalysis(rQuick, ai)
                    /\ rDecision' = RouteDecision(rAnalysis', rPaid)
                    /\ rPc' = "done"
    /\ UNCHANGED <<rTitle, rContent, rPaid, rQuick, rLlmCalls>>
    /\ UNCHANGED <<pipeVars, diffVars, deckVars, visualVars, endpointVars, sharedVars, extractVars>>

NextRoute == RouteSlideQuick \/ RouteSlideCallAI \/ RouteSlideAIReturn

SpecRoute == InitRoute /\ [][NextRoute]_vars

\* ------------------------------------- create_outline, then the fan-out
InitPipeline ==
    /\ RouteIdle /\ DiffIdle /\ DeckIdle /\ VisualIdle /\ EndpointIdle /\ SharedIdle /\ ExtractIdle
    /\ pGrade \in GradeKinds
    /\ pPc = "start" /\ pRag = None /\ pStandards = <<>>
    /\ pLlm = None /\ pGenerated = <<>> /\ pWarnings = {}
    /\ pOutline = <<>> /\ pTasks = <<>> /\ pSlides = <<>>
    /\ pOutOfOrder = FALSE

\* create_outline up to the await of the standards retrieval
CreateOutlineStart ==
    /\ pPc = "start"
    /\ ~GradeRaises(pGrade)
    /\ pPc' = "rag_wait"
    /\ UNCHANGED <<pGrade, pGenerated, pWarnings, pRag, pStandards, pLlm, pOutline, pTasks, pSlides, pOutOfOrder>>
    /\ UNCHANGED <<routeVars, diffVars, deckVars, visualVars, endpointVars, sharedVars, extractVars>>

\* int(grade_level) raises outside every try of create_outline: the
\* endpoint's except turns it into the request's failure
CreateOutlineRaise ==
    /\ pPc = "start"
    /\ GradeRaises(pGrade)
    /\ pPc' = "failed"
    /\ UNCHANGED <<pGrade, pGenerated, pWarnings, pRag, pStandards, pLlm, pOutline, pTasks, pSlides, pOutOfOrder>>
    /\ UNCHANGED <<routeVars, diffVars, deckVars, visualVars, endpointVars, sharedVars, extractVars>>

\* the retrieval ends; create_outline runs up to the await of the completion
CreateOutlineRagReturn ==
    /\ pPc = "rag_wait"
    /\ \E outcome \in RagOutcomes :
         /\ pRag' = outcome
         /\ pStandards' = StandardsOf(outcome)
    /\ pPc' = "llm_wait"
    /\ UNCHANGED <<pGrade, pGenerated, pWarnings, pLlm, pOutline, pTasks, pSlides, pOutOfOrder>>
    /\ UNCHANGED <<routeVars, diffVars, deckVars, visualVars, endpointVars, sharedVars, extractVars>>

\* the completion call ends and create_outline returns
CreateOutlineLlmReturn ==
    /\ pPc = "llm_wait"
    /\ \E resp \in OutlineResponses :
         /\ pLlm' = resp.kind
         /\ pGenerated' = resp.slides
         /\ pWarnings' = LoggedWarnings(resp)
         /\ pOutline' = CreateOutlineResult(resp)
    /\ pPc' = "outlined"
    /\ UNCHANGED <<pGrade, pRag, pStandards, pTasks, pSlides, pOutOfOrder>>
    /\ UNCHANGED <<routeVars, diffVars, deckVars, visualVars, endpointVars, sharedVars, extractVars>>

\* generate_all_slides_parallel creates one task per outline entry and
\* awaits gather; create_outline's locals are gone
GatherStart ==
    /\ pPc = "outlined"
    /\ pTasks' = [i \in DOMAIN pOutline |-> LaunchTask(pOutline[i], i - 1)]
    /\ pPc' = "gathering"
    /\ pRag' = None /\ pStandards' = <<>> /\ pLlm' = None
    /\ pGenerated' = <<>> /\ pWarnings' = {}
    /\ UNCHANGED <<pGrade, pOutline, pSlides>>
    /\ pOutOfOrder' = (pOutOfOrder \/ OutOfOrder(pTasks'))
    /\ UNCHANGED <<routeVars, diffVars, deckVars, visualVars, endpointVars, sharedVars, extractVars>>

\* task i: the content stream is drained; the notes stream is awaited
TaskContentReturn(i) ==
    /\ pPc = "gathering"
    /\ pTasks[i].pc = "content_wait"
    /\ \E outcome \in StreamOutcomes :
         pTasks' = [pTasks EXCEPT ![i].content = StreamText(outcome, "content"),
                                  ![i].pc = "notes_wait"]
    /\ UNCHANGED <<pGrade, pGenerated, pWarnings, pPc, pRag, pStandards, pLlm, pOutline, pSlides, pOutOfOrder>>
    /\ UNCHANGED <<routeVars, diffVars, deckVars, visualVars, endpointVars, sharedVars, extractVars>>

\* task i: the notes stream is drained; the image query follows unless the
\* entry's slide type is SUMMARY
TaskNotesReturn(i) ==
    /\ pPc = "gathering"
    /\ pTasks[i].pc = "notes_wait"
    /\ \E outcome \in StreamOutcomes :
         LET notes == StreamText(outcome, "notes")
             plan == pOutline[i]
         IN IF Get(plan.slideType, "CONCEPT") # "SUMMARY"
            THEN pTasks' = [pTasks EXCEPT ![i].notes = notes, ![i].pc = "image_wait"]
            ELSE pTasks' = [pTasks EXCEPT
                   ![i].notes = notes, ![i].pc = "done",
                   ![i].result = SuccessSlide(plan, i - 1, pTasks[i].content, notes, None)]
    /\ UNCHANGED <<pGrade, pGenerated, pWarnings, pPc, pRag, pStandards, pLlm, pOutline, pSlides>>
    /\ pOutOfOrder' = (pOutOfOrder \/ OutOfOrder(pTasks'))
    /\ UNCHANGED <<routeVars, diffVars, deckVars, visualVars, endpointVars, sharedVars, extractVars>>

\* task i: generate_image_query returns a query or fails (None)
TaskImageReturn(i) ==
    /\ pPc = "gathering"
    /\ pTasks[i].pc = "image_wait"
    /\ \E image \in {"query", None} :
         pTasks' = [pTasks EXCEPT
           ![i].image = image, ![i].pc = "done",
           ![i].result = SuccessSlide(pOutline[i], i - 1, pTasks[i].content,
                                      pTasks[i].notes, image)]
    /\ UNCHANGED <<pGrade, pGenerated, pWarnings, pPc, pRag, pStandards, pLlm, pOutline, pSlides>>
    /\ pOutOfOrder' = (pOutOfOrder \/ OutOfOrder(pTasks'))
    /\ UNCHANGED <<routeVars, diffVars, deckVars, visualVars, endpointVars, sharedVars, extractVars>>

\* every task is done: gather returns
GatherJoin ==
    /\ pPc = "gathering"
    /\ \A i \in DOMAIN pTasks : pTasks[i].pc = "done"
    /\ pSlides' = GatherResults(pTasks)
    /\ pPc' = "slides_done"
    /\ UNCHANGED <<pGrade, pGenerated, pWarnings, pRag, pStandards, pLlm, pOutline, pTasks, pOutOfOrder>>
    /\ UNCHANGED <<routeVars, diffVars, deckVars, visualVars, endpointVars, sharedVars, extractVars>>

NextPipeline ==
    \/ CreateOutlineStart
    \/ CreateOutlineRaise
    \/ CreateOutlineRagReturn
    \/ CreateOutlineLlmReturn
    \/ GatherStart
    \/ \E i \in DOMAIN pTasks : TaskContentReturn(i)
    \/ \E i \in DOMAIN pTasks : TaskNotesReturn(i)
    \/ \E i \in DOMAIN pTasks : TaskImageReturn(i)
    \/ GatherJoin

SpecPipeline == InitPipeline /\ [][NextPipeline]_vars

\* ------------------------------------------- generate_differentiated_deck
InitDiff ==
    /\ RouteIdle /\ PipeIdle /\ DeckIdle /\ VisualIdle /\ EndpointIdle /\ SharedIdle /\ ExtractIdle
    /\ dCore \in {CoreDeckOf(levels) : levels \in CoreLevelSeqs}
    /\ dLevel \in DiffLevels
    /\ dGrade \in GradeKinds
    /\ dPc = "start"
    /\ dFilterLog = None /\ dFilterCalls = 0 /\ dRewriteCalls = 0
    /\ dTasks = <<>> /\ dResult = NoDeck

\* CORE: the core deck itself is returned
DeriveCore ==
    /\ dPc = "start"
    /\ IsCoreLevel(dLevel)
    /\ dResult' = dCore
    /\ dPc' = "done"
    /\ UNCHANGED <<dCore, dLevel, dGrade, dFilterLog, dFilterCalls, dRewriteCalls, dTasks>>
    /\ UNCHANGED <<routeVars, pipeVars, deckVars, visualVars, endpointVars, sharedVars, extractVars>>

\* the slides are filtered, one rewrite task per kept slide is created and
\* gather is awaited
DeriveStart ==
    /\ dPc = "start"
    /\ ~IsCoreLevel(dLevel)
    /\ LET filtered == FilterSlidesByBloom(dCore.slides, dLevel)
       IN /\ dFilterCalls' = dFilterCalls + 1
          /\ dFilterLog' = CASE dLevel = "CORE" -> None
                             [] FilterFallsBack(dCore.slides, dLevel) -> "fallback"
                             [] OTHER -> "filtered"
          /\ dTasks' = [i \in DOMAIN filtered |-> LaunchRewrite(filtered[i], dLevel, dGrade)]
          /\ dRewriteCalls' = dRewriteCalls + Len(filtered)
    /\ dPc' = "gathering"
    /\ UNCHANGED <<dCore, dLevel, dGrade, dResult>>
    /\ UNCHANGED <<routeVars, pipeVars, deckVars, visualVars, endpointVars, sharedVars, extractVars>>

\* rewrite task i: its stream is drained and the slide is copied
RewriteReturn(i) ==
    /\ dPc = "gathering"
    /\ dTasks[i].pc = "wait"
    /\ \E outcome \in StreamOutcomes :
         dTasks' = [dTasks EXCEPT
           ![i].pc = "done", ![i].outcome = outcome,
           ![i].result = DifferentiatedSlide(dTasks[i].slide, dLevel, outcome)]
    /\ UNCHANGED <<dCore, dLevel, dGrade, dPc, dFilterLog, dFilterCalls, dRewriteCalls,
                   dResult>>
    /\ UNCHANGED <<routeVars, pipeVars, deckVars, visualVars, endpointVars, sharedVars, extractVars>>

\* gather returns and the derived deck is built
DeriveJoin ==
    /\ dPc = "gathering"
    /\ \A i \in DOMAIN dTasks : dTasks[i].pc = "done"
    /\ dResult' = DerivedDeck(dCore, dLevel, GatherResults(dTasks))
    /\ dPc' = "done"
    /\ UNCHANGED <<dCore, dLevel, dGrade, dFilterLog, dFilterCalls, dRewriteCalls, dTasks>>
    /\ UNCHANGED <<routeVars, pipeVars, deckVars, visualVars, endpointVars, sharedVars, extractVars>>

NextDiff ==
    \/ DeriveCore
    \/ DeriveStart
    \/ \E i \in DOMAIN dTasks : RewriteReturn(i)
    \/ DeriveJoin

SpecDiff == InitDiff /\ [][NextDiff]_vars

\* ----------------------------------------------- the deck endpoints
InitDeck ==
    /\ RouteIdle /\ PipeIdle /\ DiffIdle /\ VisualIdle /\ EndpointIdle /\ SharedIdle /\ ExtractIdle
    /\ kKind \in {"generate", "modify"}
    /\ kHasTopics \in BOOLEAN
    /\ (kKind = "modify" => kHasTopics)
    /\ kPc = "start"
    /\ kResult = NoDeckResponse /\ kFor = <<>> /\ kRoutes = <<>>
    /\ kVisuals = <<>> /\ kInvoked = <<>> /\ kSlides = <<>> /\ kFailure = None
    /\ kPaid = FALSE /\ kTotalCost = 0

\* the prompt is built and the completion is awaited
DeckStart ==
    /\ kPc = "start"
    /\ kKind = "generate" => kHasTopics
    /\ kPc' = "llm_wait"
    /\ UNCHANGED <<kKind, kHasTopics, kResult, kFor, kRoutes, kVisuals, kInvoked, kSlides, kFailure, kPaid, kTotalCost>>
    /\ UNCHANGED <<routeVars, pipeVars, diffVars, visualVars, endpointVars, sharedVars, extractVars>>

\* generate_deck without topics: its HTTPException(400) is raised inside
\* the try and caught by except Exception
DeckNoTopics ==
    /\ kPc = "start"
    /\ kKind = "generate" /\ ~kHasTopics
    /\ kPc' = "failed"
    /\ kFailure' = "no_topics"
    /\ UNCHANGED <<kKind, kHasTopics, kResult, kFor, kRoutes, kVisuals, kInvoked, kSlides, kPaid, kTotalCost>>
    /\ UNCHANGED <<routeVars, pipeVars, diffVars, visualVars, endpointVars, sharedVars, extractVars>>

\* the completion call ends; slides_for_routing is built
DeckLlmReturn ==
    /\ kPc = "llm_wait"
    /\ \E resp \in DeckResponses :
         /\ kResult' = resp
         /\ IF ~resp.ok
            THEN kPc' = "failed" /\ kFailure' = "completion" /\ kFor' = <<>>
            ELSE IF (kKind = "generate" /\ ~resp.hasSlides)
                    \/ \E i \in DOMAIN resp.slides : RoutingRaises(kKind, resp.slides[i])
            THEN kPc' = "failed" /\ kFailure' = "key_error" /\ kFor' = <<>>
            ELSE /\ kFor' = [i \in DOMAIN resp.slides |-> RoutingSlide(kKind, resp.slides[i])]
                 /\ kPc' = IF resp.slides = <<>> THEN "rendering" ELSE "routing"
                 /\ kFailure' = None
    /\ UNCHANGED <<kKind, kHasTopics, kRoutes, kVisuals, kInvoked, kSlides, kPaid, kTotalCost>>
    /\ UNCHANGED <<routeVars, pipeVars, diffVars, visualVars, endpointVars, sharedVars, extractVars>>

\* the classifier completions of the batch-routing specification
BatchLlmResponses ==
    DeckLlmResponses
    \cup {[ok |-> TRUE, visualType |-> "illustration", confKind |-> "number",
           confidence |-> 85]}

AddCostFlat(total, decision) == total + 1

\* total_cost += result.get('estimatedCost', 0)
AddCost(total, decision) == total + decision.estimatedCost

\* batch_route_slides routes the next slide and adds its cost; a TypeError
\* of route_slide leaves the loop and the caller
BatchRouteStep(responses) ==
    /\ kPc = "routing"
    /\ LET slide == kFor[Len(kRoutes) + 1]
           quick == QuickDetectPair(slide)
           last == Len(kRoutes) + 1 = Len(kFor)
       IN IF QuickDetectRaises(slide)
          THEN /\ kPc' = "failed" /\ kFailure' = "routing"
               /\ UNCHANGED <<kRoutes, kTotalCost>>
          ELSE IF QuickReturns(quick)
          THEN /\ kRoutes' = Append(kRoutes, RouteDecision(quick, kPaid))
               /\ kTotalCost' = AddCost(kTotalCost, RouteDecision(quick, kPaid))
               /\ kPc' = IF last THEN "rendering" ELSE "routing"
               /\ kFailure' = None
          ELSE \E resp \in responses :
                 LET ai == AiAnalyze(resp)
                     analysis == CombineAnalysis(quick, ai)
                 IN IF BoostRaises(quick, ai) \/ RouteRaises(analysis)
                    THEN /\ kPc' = "failed" /\ kFailure' = "routing"
                         /\ UNCHANGED <<kRoutes, kTotalCost>>
                    ELSE /\ kRoutes' = Append(kRoutes, RouteDecision(analysis, kPaid))
                         /\ kTotalCost' = AddCost(kTotalCost, RouteDecision(analysis, kPaid))
                         /\ kPc' = IF last THEN "rendering" ELSE "routing"
                         /\ kFailure' = None
    /\ UNCHANGED <<kKind, kHasTopics, kResult, kFor, kVisuals, kInvoked, kSlides, kPaid>>
    /\ UNCHANGED <<routeVars, pipeVars, diffVars, visualVars, endpointVars, sharedVars, extractVars>>

\* the endpoints' call of batch_route_slides
DeckRouteSlide == BatchRouteStep(DeckLlmResponses)

\* batch_generate_visuals handles the next slide: the placeholder for a
\* slide without visual type, else generate_visual's result
DeckRenderSlide ==
    /\ kPc = "rendering"
    /\ Len(kVisuals) < Len(kFor)
    /\ LET route == kRoutes[Len(kVisuals) + 1]
       IN IF route.visualType = None
          THEN /\ kVisuals' = Append(kVisuals, SkippedVisual)
               /\ kInvoked' = Append(kInvoked, FALSE)
          ELSE /\ \E outcome \in RenderOutcomes :
                    kVisuals' = Append(kVisuals, GenerateVisual(route, outcome))
               /\ kInvoked' = Append(kInvoked, TRUE)
    /\ UNCHANGED <<kKind, kHasTopics, kPc, kResult, kFor, kRoutes, kSlides, kFailure, kPaid, kTotalCost>>
    /\ UNCHANGED <<routeVars, pipeVars, diffVars, visualVars, endpointVars, sharedVars, extractVars>>

\* the slides are assembled and the response object is built:
\* DeckGenerateResponse has the one required field lesson, which neither
\* endpoint passes, so that its construction raises
DeckAssemble ==
    /\ kPc = "rendering"
    /\ Len(kVisuals) = Len(kFor)
    /\ LET entries == kResult.slides
           n == AssembledPrefix(kKind, entries)
       IN /\ kSlides' = [i \in 1..n |-> AssembledSlide(entries[i], kRoutes[i], kVisuals[i])]
          /\ kFailure' = IF n < Len(entries) \/ (kKind = "generate" /\ ~kResult.hasTitle)
                         THEN "key_error" ELSE "response"
    /\ kPc' = "failed"
    /\ UNCHANGED <<kKind, kHasTopics, kResult, kFor, kRoutes, kVisuals, kInvoked, kPaid, kTotalCost>>
    /\ UNCHANGED <<routeVars, pipeVars, diffVars, visualVars, endpointVars, sharedVars, extractVars>>

NextDeck ==
    \/ DeckStart
    \/ DeckNoTopics
    \/ DeckLlmReturn
    \/ DeckRouteSlide
    \/ DeckRenderSlide
    \/ DeckAssemble

SpecDeck == InitDeck /\ [][NextDeck]_vars

\* --------------------------------------------------- batch_route_slides
\* the pairs a batch is made of: no pattern, four math families, a flow
\* keyword pair below the quick-return confidence
BatchPairs ==
    { Pair(<<"plain">>, "str", << <<"plain">> >>),
      Pair(<<"formula">>, "str", << <<"e=mc^2", "\\frac{a}{b}">> >>),
      Pair(<<>>, "str", << <<"workflow">> >>) }

\* a call of batch_route_slides on its own, with either value of
\* enable_paid_services
InitBatch ==
    /\ RouteIdle /\ PipeIdle /\ DiffIdle /\ VisualIdle /\ EndpointIdle /\ SharedIdle /\ ExtractIdle
    /\ kKind = "generate" /\ kHasTopics = TRUE
    /\ kResult = NoDeckResponse
    /\ kFor \in SeqsUpTo(BatchPairs, MaxDeckSlides)
    /\ kPaid \in BOOLEAN
    /\ kPc = IF kFor = <<>> THEN "rendering" ELSE "routing"
    /\ kRoutes = <<>> /\ kTotalCost = 0
    /\ kVisuals = <<>> /\ kInvoked = <<>> /\ kSlides = <<>> /\ kFailure = None

BatchRouteSlide == BatchRouteStep(BatchLlmResponses)

NextBatch == BatchRouteSlide

SpecBatch == InitBatch /\ [][NextBatch]_vars

\* ------------------------------------------------------ generate_visual
InitVisual ==
    /\ RouteIdle /\ PipeIdle /\ DiffIdle /\ DeckIdle /\ EndpointIdle /\ SharedIdle /\ ExtractIdle
    /\ gType \in VisualTypes
    /\ gConfig \in VisualConfigs
    /\ gFound \in 0..MaxPoints
    /\ gPc = "start"
    /\ gLlmCalls = 0 /\ gRendered = NoRendererResult /\ gResult = None

\* generate_visual up to its renderer's completion call, or up to its
\* return when no completion is called
GenerateVisualCall ==
    /\ gPc = "start"
    /\ LET before == BodyBeforeRenderer(gType, gConfig)
       IN IF before.raised
          THEN /\ gResult' = CatchVisual(gType, before)
               /\ gPc' = "done"
               /\ UNCHANGED <<gLlmCalls, gRendered>>
          ELSE IF NeedsCompletion(gType, gConfig, gFound)
          THEN /\ gPc' = "llm_wait"
               /\ gLlmCalls' = gLlmCalls + 1
               /\ UNCHANGED <<gRendered, gResult>>
          ELSE /\ gRendered' = RendererNow(gType, gConfig, gFound)
               /\ gResult' = CatchVisual(gType, BodyAfterRenderer(gType, gRendered'))
               /\ gPc' = "done"
               /\ UNCHANGED gLlmCalls
    /\ UNCHANGED <<gType, gConfig, gFound>>
    /\ UNCHANGED <<routeVars, pipeVars, diffVars, deckVars, endpointVars, sharedVars, extractVars>>

\* the renderer's completion call returns or raises, the renderer returns
\* its dict and generate_visual its result
RendererLlmReturn ==
    /\ gPc = "llm_wait"
    /\ \E resp \in RenderLlmResponses :
         /\ gRendered' = RendererAfterLlm(gType, resp)
         /\ gResult' = CatchVisual(gType, BodyAfterRenderer(gType, gRendered'))
    /\ gPc' = "done"
    /\ UNCHANGED <<gType, gConfig, gFound, gLlmCalls>>
    /\ UNCHANGED <<routeVars, pipeVars, diffVars, deckVars, endpointVars, sharedVars, extractVars>>

NextVisual ==
    \/ GenerateVisualCall
    \/ RendererLlmReturn

SpecVisual == InitVisual /\ [][NextVisual]_vars

\* -------------------- generate_complete_deck, generate_all_differentiation_levels
\* LessonDeck(slides=slides) validates every slide dict as a Slide:
\* slideType and bloom_level must be members of their enums
SlideValidates(slide) ==
    slide.slideType \in SlideTypes /\ slide.bloom_level \in BloomLevels

\* the LessonDeck both endpoints build from the gathered slides
LessonDeckOf(slides) ==
    [topic |-> "topic",
     bloom_progression |-> [i \in DOMAIN slides |-> slides[i].bloom_level],
     slides |-> [i \in DOMAIN slides |->
                   DeckSlide(slides[i].title, slides[i].content, slides[i].order,
                             slides[i].bloom_level, slides[i].speakerNotes)]]

\* the levels generate_all_differentiation_levels derives from the core deck
DerivedLevels == {"SUPPORT", "EXTENSION"}

ContentJoinedEarly == pPc \in {"gathering", "slides_done"}

\* the await of generate_all_slides_parallel returned
ContentJoined == pPc = "slides_done"

\* a request at one of the two endpoints; a gradeLevel that is not all
\* digits is read as grade 8 and the request runs as one whose grade is
\* digits, so one of the two kinds stands for both
InitEndpoint(kind) ==
    /\ RouteIdle /\ DiffIdle /\ DeckIdle /\ VisualIdle /\ SharedIdle /\ ExtractIdle
    /\ pGrade \in GradeKinds \ {"other"}
    /\ pPc = "start" /\ pRag = None /\ pStandards = <<>>
    /\ pLlm = None /\ pGenerated = <<>> /\ pWarnings = {}
    /\ pOutline = <<>> /\ pTasks = <<>> /\ pSlides = <<>>
    /\ pOutOfOrder = FALSE
    /\ eKind = kind /\ ePc = "pipeline" /\ eDeck = NoDeck

\* an exception of create_outline reaches the endpoint's except branch:
\* HTTP 500
EndpointPipelineRaised ==
    /\ ePc = "pipeline"
    /\ pPc = "failed"
    /\ ePc' = "failed"
    /\ UNCHANGED <<eKind, eDeck>>
    /\ UNCHANGED <<routeVars, pipeVars, diffVars, deckVars, visualVars, sharedVars, extractVars>>

\* generate_all_slides_parallel returned: the LessonDeck is built, or its
\* validation raises; generate_complete_deck returns the deck,
\* generate_all_differentiation_levels creates the two derivations and
\* awaits their gather. The two derivations are the same coroutine on the
\* same core deck and share no state: dLevel is the one that is followed.
EndpointBuildDeck ==
    /\ ePc = "pipeline"
    /\ ContentJoined
    /\ IF \E i \in DOMAIN pSlides : ~SlideValidates(pSlides[i])
       THEN /\ ePc' = "failed"
            /\ UNCHANGED <<eDeck, diffVars>>
       ELSE /\ eDeck' = LessonDeckOf(pSlides)
            /\ IF eKind = "complete"
               THEN /\ ePc' = "done"
                    /\ UNCHANGED diffVars
               ELSE /\ ePc' = "deriving"
                    /\ dCore' = eDeck'
                    /\ dLevel' \in DerivedLevels
                    /\ dGrade' = pGrade
                    /\ dPc' = "start"
                    /\ UNCHANGED <<dFilterLog, dFilterCalls, dRewriteCalls, dTasks, dResult>>
    /\ UNCHANGED eKind
    /\ UNCHANGED <<routeVars, pipeVars, deckVars, visualVars, sharedVars, extractVars>>

\* the gather of the derivations returned: the endpoint returns the decks
EndpointReturnLevels ==
    /\ ePc = "deriving"
    /\ dPc = "done"
    /\ ePc' = "done"
    /\ UNCHANGED <<eKind, eDeck>>
    /\ UNCHANGED <<routeVars, pipeVars, diffVars, deckVars, visualVars, sharedVars, extractVars>>

\* one request at generate_deck, modify_deck or
\* generate_all_differentiation_levels
InitRequest == InitDeck \/ InitEndpoint("all_levels")

NextRequest ==
    \/ DeckStart
    \/ DeckNoTopics
    \/ DeckLlmReturn
    \/ DeckRouteSlide
    \/ DeckRenderSlide
    \/ DeckAssemble
    \/ CreateOutlineStart
    \/ CreateOutlineRaise
    \/ CreateOutlineRagReturn
    \/ CreateOutlineLlmReturn
    \/ GatherStart
    \/ \E i \in DOMAIN pTasks : TaskContentReturn(i)
    \/ \E i \in DOMAIN pTasks : TaskNotesReturn(i)
    \/ \E i \in DOMAIN pTasks : TaskImageReturn(i)
    \/ GatherJoin
    \/ EndpointPipelineRaised
    \/ EndpointBuildDeck
    \/ DeriveStart
    \/ \E i \in DOMAIN dTasks : RewriteReturn(i)
    \/ DeriveJoin
    \/ EndpointReturnLevels

SpecRequest == InitRequest /\ [][NextRequest]_vars

\* one request at generate_complete_deck
InitComplete == InitEndpoint("complete")

NextComplete ==
    \/ CreateOutlineStart
    \/ CreateOutlineRaise
    \/ CreateOutlineRagReturn
    \/ CreateOutlineLlmReturn
    \/ GatherStart
    \/ \E i \in DOMAIN pTasks : TaskContentReturn(i)
    \/ \E i \in DOMAIN pTasks : TaskNotesReturn(i)
    \/ \E i \in DOMAIN pTasks : TaskImageReturn(i)
    \/ GatherJoin
    \/ EndpointPipelineRaised
    \/ EndpointBuildDeck

SpecComplete == InitComplete /\ [][NextComplete]_vars

\* every external call eventually returns or fails, and the event loop
\* runs a coroutine that can run: a step that stays possible is taken
FairComplete == WF_vars(NextComplete)

SpecCompleteFair == SpecComplete /\ FairComplete

\* ------------------ generate_all_differentiation_levels: the two derivations
SharedLevelSeqs == SeqsUpTo({"UNDERSTAND", "APPLY"}, MaxSharedDeck)

\* the address of the i-th Slide object of the core deck
CoreAddr(i) == <<"core", i>>

CopyInPlace(level, i, slide) == slide

\* slide.model_copy(update=...) returns a new Slide object
CopyAddr(level, i, slide) == <<level, i>>

\* the Slide objects LessonDeck(slides=slides) holds
SharedHeapOf(levels) ==
    [a \in {CoreAddr(i) : i \in DOMAIN levels} |-> CoreDeckOf(levels).slides[a[2]]]

\* core_deck as the endpoint builds it
SharedDeckOf(levels) ==
    [CoreDeckOf(levels) EXCEPT !.slides = [i \in DOMAIN levels |-> CoreAddr(i)]]

Store(heap, a, v) ==
    IF a \in DOMAIN heap THEN [heap EXCEPT ![a] = v] ELSE heap @@ (a :> v)

\* a deck with the Slide objects its slides list refers to
SlidesOf(heap, deck) ==
    [deck EXCEPT !.slides = [i \in DOMAIN deck.slides |-> heap[deck.slides[i]]]]

Derivation(pc, tasks, result) == [pc |-> pc, tasks |-> tasks, result |-> result]

\* _filter_slides_by_bloom(core_deck.slides, target_level): the list is new,
\* the Slide objects in it are the core deck's
SharedFiltered(heap, core, level) ==
    LET refs == [i \in DOMAIN core.slides |->
                   [addr |-> core.slides[i],
                    bloom_level |-> heap[core.slides[i]].bloom_level]]
        kept == FilterSlidesByBloom(refs, level)
    IN [i \in DOMAIN kept |-> kept[i].addr]

\* the LessonDeck generate_differentiated_deck returns
SharedDerivedDeck(heap, core, level, tasks) ==
    [topic |-> DerivedTopic(core.topic, level),
     bloom_progression |-> [i \in DOMAIN tasks |-> heap[tasks[i].result].bloom_level],
     slides |-> GatherResults(tasks)]

\* the core deck was built; support_task and extension_task are created and
\* their gather is awaited
InitShared ==
    /\ RouteIdle /\ PipeIdle /\ DiffIdle /\ DeckIdle /\ VisualIdle /\ EndpointIdle /\ ExtractIdle
    /\ xLevels \in SharedLevelSeqs
    /\ xGrade \in GradeKinds \ {"other"}
    /\ xHeap = SharedHeapOf(xLevels)
    /\ xCore = SharedDeckOf(xLevels)
    /\ xDer = [level \in DerivedLevels |-> Derivation("start", <<>>, NoDeck)]
    /\ xPc = "gathering"

\* a derivation runs to its gather: the slides are filtered and one rewrite
\* task per kept slide runs to its first await. gather starts support_task
\* before extension_task
SharedDeriveStart(level) ==
    /\ xPc = "gathering"
    /\ xDer[level].pc = "start"
    /\ level = "EXTENSION" => xDer["SUPPORT"].pc # "start"
    /\ LET filtered == SharedFiltered(xHeap, xCore, level)
       IN xDer' = [xDer EXCEPT ![level] =
                     Derivation("gathering",
                                [i \in DOMAIN filtered |->
                                   LaunchRewrite(filtered[i], level, xGrade)],
                                NoDeck)]
    /\ UNCHANGED <<xLevels, xGrade, xHeap, xCore, xPc>>
    /\ UNCHANGED <<routeVars, pipeVars, diffVars, deckVars, visualVars, endpointVars, extractVars>>

\* rewrite task i of a derivation: its stream is drained and the slide is
\* copied with the new content and notes
SharedRewriteReturn(level, i) ==
    /\ xPc = "gathering"
    /\ \A other \in DerivedLevels : xDer[other].pc # "start"
    /\ xDer[level].pc = "gathering"
    /\ xDer[level].tasks[i].pc = "wait"
    /\ \E outcome \in StreamOutcomes :
         LET task == xDer[level].tasks[i]
             target == CopyAddr(level, i, task.slide)
         IN /\ xHeap' = Store(xHeap, target,
                              DifferentiatedSlide(xHeap[task.slide], level, outcome))
            /\ xDer' = [xDer EXCEPT ![level].tasks[i] =
                          DiffTask("done", outcome, task.slide, target)]
    /\ UNCHANGED <<xLevels, xGrade, xCore, xPc>>
    /\ UNCHANGED <<routeVars, pipeVars, diffVars, deckVars, visualVars, endpointVars, extractVars>>

\* a derivation's gather returns: its deck is built from core_deck's
\* metadata and the gathered slides
SharedDeriveJoin(level) ==
    /\ xPc = "gathering"
    /\ xDer[level].pc = "gathering"
    /\ \A i \in DOMAIN xDer[level].tasks : xDer[level].tasks[i].pc = "done"
    /\ xDer' = [xDer EXCEPT
         ![level].pc = "done",
         ![level].result = SharedDerivedDeck(xHeap, xCore, level, xDer[level].tasks)]
    /\ UNCHANGED <<xLevels, xGrade, xHeap, xCore, xPc>>
    /\ UNCHANGED <<routeVars, pipeVars, diffVars, deckVars, visualVars, endpointVars, extractVars>>

\* the endpoint's gather returns support_deck and extension_deck
SharedGatherReturn ==
    /\ xPc = "gathering"
    /\ \A level \in DerivedLevels : xDer[level].pc = "done"
    /\ xPc' = "done"
    /\ UNCHANGED <<xLevels, xGrade, xHeap, xCore, xDer>>
    /\ UNCHANGED <<routeVars, pipeVars, diffVars, deckVars, visualVars, endpointVars, extractVars>>

NextShared ==
    \/ \E level \in DerivedLevels : SharedDeriveStart(level)
    \/ \E level \in DerivedLevels : \E i \in DOMAIN xDer[level].tasks : SharedRewriteReturn(level, i)
    \/ \E level \in DerivedLevels : SharedDeriveJoin(level)
    \/ SharedGatherReturn

SpecShared == InitShared /\ [][NextShared]_vars


\* ------------------------------------------------- the extraction helpers
\* chart_generator._extract_data_from_content
ExtractDataFromContent(content) ==
    LET pattern1 == FlatMap(DataPointsOf, content)
        pattern2 == FlatMap(ParenPointsOf, content)
        data_points == IF pattern1 # <<>> THEN pattern1 ELSE pattern2
    IN Take(data_points, DataPointLimit)

\* math_generator._extract_equations
ExtractEquations(content) ==
    LET latex_pattern == FlatMap(DollarEquations, content)
        eq_pattern == FlatMap(SimpleEquations, content)
        equations == IF latex_pattern # <<>> THEN latex_pattern ELSE eq_pattern
    IN Take(equations, EquationLimit)

InitExtract ==
    /\ RouteIdle /\ PipeIdle /\ DiffIdle /\ DeckIdle /\ VisualIdle /\ EndpointIdle
    /\ SharedIdle
    /\ hContent \in SeqsUpTo(Fragments, MaxFragments)
    /\ hPc = "start" /\ hHelper = None /\ hResult = <<>>

\* ContentAnalyzer._extract_chart_metadata(content)['dataPoints']
ClassifierChartData ==
    /\ hPc = "start"
    /\ hHelper' = "classifier_chart"
    /\ hResult' = ExtractChartMetadata(hContent).dataPoints
    /\ hPc' = "done"
    /\ UNCHANGED hContent
    /\ UNCHANGED <<routeVars, pipeVars, diffVars, deckVars, visualVars, endpointVars, sharedVars>>

\* ContentAnalyzer._extract_math_metadata(content)['equations']
ClassifierMathEquations ==
    /\ hPc = "start"
    /\ hHelper' = "classifier_math"
    /\ hResult' = ExtractMathMetadata(hContent).equations
    /\ hPc' = "done"
    /\ UNCHANGED hContent
    /\ UNCHANGED <<routeVars, pipeVars, diffVars, deckVars, visualVars, endpointVars, sharedVars>>

\* chart_generator._extract_data_from_content(content)
RendererChartData ==
    /\ hPc = "start"
    /\ hHelper' = "renderer_chart"
    /\ hResult' = ExtractDataFromContent(hContent)
    /\ hPc' = "done"
    /\ UNCHANGED hContent
    /\ UNCHANGED <<routeVars, pipeVars, diffVars, deckVars, visualVars, endpointVars, sharedVars>>

\* math_generator._extract_equations(content)
RendererMathEquations ==
    /\ hPc = "start"
    /\ hHelper' = "renderer_math"
    /\ hResult' = ExtractEquations(hContent)
    /\ hPc' = "done"
    /\ UNCHANGED hContent
    /\ UNCHANGED <<routeVars, pipeVars, diffVars, deckVars, visualVars, endpointVars, sharedVars>>

NextExtract ==
    \/ ClassifierChartData
    \/ ClassifierMathEquations
    \/ RendererChartData
    \/ RendererMathEquations

SpecExtract == InitExtract /\ [][NextExtract]_vars

\* ================================================================ claims
FreeRenderer(vt) ==
    CASE vt = "diagram" -> "mermaid" [] vt = "chart" -> "chartjs" [] vt = "math" -> "latex"

IsSkip(d) == d.visualType = None /\ d.generatedBy = None /\ d.estimatedCost = 0

\* C1: a classification with confidence < 60 or type none is routed to skip
\* (null type, null renderer, cost 0); one with confidence >= 60 and type
\* diagram, chart or math is routed to mermaid, chartjs or latex at cost 0.
C1_Threshold ==
    rPc = "done" =>
      /\ (rAnalysis.confidence < 60 \/ rAnalysis.visualType = "none") => IsSkip(rDecision)
      /\ (rAnalysis.confidence >= 60 /\ rAnalysis.visualType \in {"diagram", "chart", "math"}) =>
            /\ rDecision.visualType = rAnalysis.visualType
            /\ rDecision.generatedBy = FreeRenderer(rAnalysis.visualType)
            /\ rDecision.estimatedCost = 0

C1_Witness ==
    /\ rPc = "done" /\ rAnalysis.confidence = 60 /\ rAnalysis.visualType = "chart"
    /\ rDecision.generatedBy = "chartjs"

OutlineShape(outline) ==
    [i \in DOMAIN outline |-> <<outline[i].slideType, outline[i].bloom_level>>]

\* C4: when create_outline's completion call fails or returns what cannot
\* be read as an outline, whatever became of the standards retrieval,
\* create_outline does not raise: it returns the four-entry skeleton
\* INTRODUCTION/REMEMBER, CONCEPT/UNDERSTAND, ACTIVITY/APPLY, SUMMARY/CREATE.
C4_OutlinerFallback ==
    /\ (pPc = "failed" => pLlm = None)
    /\ (pPc = "outlined" /\ OutlineCallFailed(pLlm)) =>
          /\ pRag \in RagOutcomes
          /\ OutlineShape(pOutline) =
                << <<"INTRODUCTION", "REMEMBER">>, <<"CONCEPT", "UNDERSTAND">>,
                   <<"ACTIVITY", "APPLY">>, <<"SUMMARY", "CREATE">> >>

\* the completion call failed after the retrieval had failed, and an
\* outline came back
C4_Witness ==
    /\ pPc = "outlined" /\ pLlm = "parse_error" /\ pRag = "raised"
    /\ Len(pOutline) = 4

\* C5: when gather returns, the batch has one slide per outline entry; the
\* slide of a task that raised keeps the entry's title and has the fixed
\* placeholder content, empty notes and no image query; every other slide is
\* the one its own streams and image query produced.
C5_FailureIsolation ==
    pPc = "slides_done" =>
       /\ Len(pSlides) = Len(pOutline)
       /\ \A i \in DOMAIN pOutline :
            /\ pSlides[i].order = i - 1
            /\ pSlides[i].title = Get(pOutline[i].title, DefaultTitle(i - 1))
            /\ IF pTasks[i].raised
               THEN /\ pSlides[i].content =
                         "Content generation in progress. Please regenerate this slide."
                    /\ pSlides[i].speakerNotes = ""
                    /\ pSlides[i].imageQuery = None
               ELSE /\ pSlides[i].content = pTasks[i].content
                    /\ pSlides[i].speakerNotes = pTasks[i].notes
                    /\ pSlides[i].imageQuery = pTasks[i].image

\* a batch of two in which one task raised and the other ran to its end
C5_Witness ==
    /\ pPc = "slides_done" /\ Len(pSlides) = 2
    /\ pTasks[1].raised /\ ~pTasks[2].raised
    /\ pSlides[1].title = "NoObjective"
    /\ pSlides[2].content = "content" /\ pSlides[2].imageQuery = "query"


\* the Bloom levels a derived deck of the level is meant to keep
KeptLevels(level) ==
    IF level = "SUPPORT" THEN {"REMEMBER", "UNDERSTAND"}
    ELSE {"APPLY", "ANALYZE", "EVALUATE", "CREATE"}

\* the titles of the slides of a list, in order
TitlesOf(slides) == [i \in DOMAIN slides |-> slides[i].title]

\* the core slides whose level the target level keeps, in core order
KeptOfCore == SelectSeq(dCore.slides, LAMBDA sl : sl.bloom_level \in KeptLevels(dLevel))

DerivedDone == dPc = "done" /\ dLevel # "CORE"

C7_FallbackAtLeastTwo ==
    DerivedDone =>
       /\ Len(KeptOfCore) < 2 =>
            /\ dFilterLog = "fallback"
            /\ TitlesOf(dResult.slides) = TitlesOf(Take(dCore.slides, 5))
       /\ Len(dResult.slides) >= 2

\* C8: deriving the CORE level returns the core deck itself, and neither
\* the filter nor a rewrite is run.
C8_CoreIdentity ==
    (dPc = "done" /\ dLevel = "CORE") =>
       /\ dResult = dCore
       /\ dFilterCalls = 0 /\ dRewriteCalls = 0
       /\ dTasks = <<>>

\* the CORE level of a core deck of two slides was derived
C8_Witness ==
    /\ dPc = "done" /\ dLevel = "CORE"
    /\ Len(dCore.slides) = 2 /\ dResult.slides = dCore.slides

\* C9: when the rewrite of a slide fails, the derivation does not fail, the
\* slide is in the derived deck unmodified, and the slides whose rewrite
\* succeeded are rewritten.
C9_RewriteFailureKeepsSlide ==
    DerivedDone =>
       /\ Len(dResult.slides) = Len(dTasks)
       /\ \A i \in DOMAIN dTasks :
            IF dTasks[i].outcome = "ok"
            THEN dResult.slides[i].content = "rewritten"
            ELSE dResult.slides[i] = dTasks[i].slide


\* the order values of the slides of a list
OrdersOf(slides) == {slides[i].order : i \in DOMAIN slides}

\* C10: whatever the completion returned, the slides an endpoint has
\* assembled carry unique order values that form the range 0..N-1 or 1..N.
C10_OrdersContiguous ==
    (kPc = "failed" /\ kFailure = "response") =>
       LET n == Len(kSlides)
       IN /\ Cardinality(OrdersOf(kSlides)) = n
          /\ OrdersOf(kSlides) = 0..(n - 1) \/ OrdersOf(kSlides) = 1..n


\* the string a content value is to become: a string itself, the items of
\* a list joined by newlines, the JSON text of an object, the digits of a
\* number
Flattened(entry) ==
    CASE entry.contentKind = "str" -> entry.content[1]
      [] entry.contentKind = "list" ->
           entry.content[1] \o <<"\n">> \o entry.content[2]
      [] entry.contentKind = "dict" ->
           <<"{\"k\": \"">> \o entry.content[1] \o <<"\"}">>
      [] entry.contentKind = "number" -> entry.content[1]
      [] OTHER -> <<>>

\* C11: slide content is always a string, flattened as above, both in the
\* {title, content} pairs handed to routing and rendering and in the slides
\* stored in the deck.
C11_ContentIsString ==
    /\ \A i \in DOMAIN kFor :
         /\ kFor[i].contentKind = "str"
         /\ kFor[i].items = << Flattened(kResult.slides[i]) >>
    /\ \A i \in DOMAIN kSlides :
         kSlides[i].content = Flattened(kResult.slides[i])


\* C12: for every outline of N entries and every interleaving of the N
\* tasks, gather returns N slides, the slide at position i is built from
\* entry i (its title) and has order i, so that the orders are 0..N-1.
C12_FanOutOrdering ==
    pPc = "slides_done" =>
       /\ Len(pSlides) = Len(pOutline)
       /\ \A i \in DOMAIN pSlides :
            /\ pSlides[i].title =
                 IF pOutline[i].title = NoKey THEN "Slide " \o ToString(i)
                 ELSE pOutline[i].title
            /\ pSlides[i].order = i - 1
       /\ {pSlides[i].order : i \in DOMAIN pSlides} = 0..(Len(pOutline) - 1)

\* two tasks that both ran their streams, the second ending first
C12_Witness ==
    /\ pPc = "slides_done" /\ Len(pSlides) = 2 /\ pOutOfOrder
    /\ ~pTasks[1].raised /\ ~pTasks[2].raised
    /\ pSlides[1].title = "Intro" /\ pSlides[2].title = "Odd"


\* the decisions route_slide can return for a pair
DecisionsFor(pair, paid) ==
    LET quick == QuickDetectPair(pair)
    IN IF QuickReturns(quick) THEN {RouteDecision(quick, paid)}
       ELSE {RouteDecision(CombineAnalysis(quick, AiAnalyze(resp)), paid) :
               resp \in BatchLlmResponses}

\* C13: when batch routing returns, it returns one decision per slide, the
\* decision at position i being one for slide i, and its total is the sum
\* of the estimatedCost of the decisions, 0 with paid services disabled.
C13_BatchRouting ==
    kPc = "rendering" =>
       /\ Len(kRoutes) = Len(kFor)
       /\ \A i \in DOMAIN kFor : kRoutes[i] \in DecisionsFor(kFor[i], kPaid)
       /\ kTotalCost = SumSeq([i \in DOMAIN kRoutes |-> kRoutes[i].estimatedCost])
       /\ ~kPaid => kTotalCost = 0

\* a batch of two with paid services: the first slide is routed to latex by
\* its patterns, the second to dalle3, and the total is the one image
C13_Witness ==
    /\ kPc = "rendering" /\ kPaid /\ Len(kRoutes) = 2
    /\ kRoutes[1].generatedBy = "latex" /\ kRoutes[2].generatedBy = "dalle3"
    /\ kTotalCost = 4


HasVisualMetadata(slide) == slide.visualMetadata.visualType # None

\* C14: an assembled slide has visualMetadata exactly when its routing
\* decision has a visualType and its render result succeeded; the metadata
\* then carries the decision's visualType, confidence, generatedBy and
\* reasoning and the data rendered for the same position.
C14_VisualMetadata ==
    \A i \in DOMAIN kSlides :
       /\ HasVisualMetadata(kSlides[i]) <=>
            (kRoutes[i].visualType # None /\ kVisuals[i].success)
       /\ HasVisualMetadata(kSlides[i]) =>
            /\ kSlides[i].visualMetadata.visualType = kRoutes[i].visualType
            /\ kSlides[i].visualMetadata.confidence = kRoutes[i].confidence
            /\ kSlides[i].visualMetadata.generatedBy = kRoutes[i].generatedBy
            /\ kSlides[i].visualMetadata.reasoning = kRoutes[i].reasoning
            /\ kSlides[i].visualMetadata.generatedData = kVisuals[i].data
       /\ ~HasVisualMetadata(kSlides[i]) => kSlides[i].visualMetadata = NoVisualMetadata

\* two assembled slides: the first was routed to latex and rendered, the
\* second was routed to mermaid and its rendering failed
C14_Witness ==
    /\ Len(kSlides) = 2
    /\ kSlides[1].visualMetadata.generatedBy = "latex"
    /\ kSlides[1].visualMetadata.generatedData = "data of latex"
    /\ kRoutes[2].generatedBy = "mermaid" /\ ~kVisuals[2].success
    /\ ~HasVisualMetadata(kSlides[2])


\* C15: when the classifier's completion call fails, classify does not
\* raise: its result is visualType none with confidence 0 and the failure
\* as its reasoning, also when the pattern detector had matched with a
\* confidence from 70 to 89, and routing skips the slide.
C15_LlmErrorIsNone ==
    rLlm = "error" =>
       /\ rPc = "done"
       /\ rAnalysis.visualType = "none" /\ rAnalysis.confidence = 0
       /\ rAnalysis.reasoning = "Analysis failed"
       /\ IsSkip(rDecision) /\ rDecision.confidence = 0

\* the completion call failed after the math detector had matched at 80
C15_Witness ==
    /\ rLlm = "error" /\ rPc = "done"
    /\ rQuick.visualType = "math" /\ rQuick.confidence = 80
    /\ rAnalysis.visualType = "none"

\* C16: generate_visual never raises: for every visual type and every
\* outcome of the renderer or of its completion call it ends with a result;
\* a result is successful only when the selected renderer reported success,
\* and every other result has success false and an error field.
C16_RendererBoundary ==
    /\ gPc # "raised"
    /\ gPc = "done" =>
         /\ gResult.success \in BOOLEAN
         /\ gResult.success =>
              gType \in RenderedTypes /\ gRendered.returned /\ gRendered.success
         /\ ~(gRendered.returned /\ gRendered.success) =>
              ~gResult.success /\ gResult.error # NoKey
         /\ ~gResult.success => gResult.type = gType /\ gResult.data = None

C16_Witness ==
    /\ gPc = "done" /\ gType = "chart" /\ gLlmCalls = 1
    /\ gRendered.returned /\ ~gRendered.success
    /\ ~gResult.success /\ gResult.error = "Chart generation failed"

\* C17: batch_generate_visuals gives one result per slide, in the order of
\* the slides and of the routing decisions; for a slide whose decision has
\* no visual type the result is the placeholder (success false, skipped
\* true) and generate_visual is not called for it, and every other slide's
\* result is the one generate_visual returned for its decision's type.
C17_BatchRendering ==
    /\ Len(kVisuals) = Len(kInvoked) /\ Len(kVisuals) <= Len(kRoutes)
    /\ kPc = "failed" /\ kFailure \in {"key_error", "response"} =>
          Len(kVisuals) = Len(kFor) /\ Len(kRoutes) = Len(kFor)
    /\ \A i \in 1..Len(kVisuals) :
          IF kRoutes[i].visualType = None
          THEN /\ ~kInvoked[i]
               /\ ~kVisuals[i].success /\ kVisuals[i].skipped
          ELSE /\ kInvoked[i]
               /\ ~kVisuals[i].skipped
               /\ kVisuals[i].type \in {kRoutes[i].visualType, RendererOf(kRoutes[i].visualType)}

C17_Witness ==
    /\ kPc = "failed" /\ Len(kVisuals) = 2
    /\ kRoutes[1].visualType = None /\ kVisuals[1].skipped /\ ~kInvoked[1]
    /\ kRoutes[2].visualType = "math" /\ kVisuals[2].success /\ kInvoked[2]

\* C18: within one request no stage starts before the stage before it has
\* ended for all slides: content tasks exist only once the outline is
\* complete (one task per outline entry), a visual result exists only once
\* every slide has its routing decision, and a derivation runs only after
\* every content task has ended and the gather has returned their slides.
C18_StageBarrier ==
    /\ pPc \in {"start", "rag_wait", "llm_wait", "failed"} => pTasks = <<>>
    /\ pTasks # <<>> =>
          pPc \in {"gathering", "slides_done"} /\ Len(pTasks) = Len(pOutline)
    /\ kVisuals # <<>> =>
          kPc # "routing" /\ Len(kRoutes) = Len(kFor)
    /\ (dPc # "idle" \/ dTasks # <<>>) =>
          /\ pPc = "slides_done"
          /\ \A i \in DOMAIN pTasks : pTasks[i].pc = "done"
          /\ Len(pSlides) = Len(pTasks)
          /\ Len(dCore.slides) = Len(pSlides)

C18_Witness ==
    /\ ePc = "deriving" /\ dPc = "gathering"
    /\ Len(pTasks) = 2 /\ pOutOfOrder
    /\ Len(dTasks) = 2 /\ dTasks[1].pc = "wait"

\* C19: when every external call eventually returns or fails, a request
\* eventually ends, either with a deck or with a request-level failure and
\* never with both, and stays there; it does not end while a gather is
\* awaited, so that every gather is eventually joined, also when tasks of
\* it failed.
C19_Termination ==
    /\ <>(ePc \in {"done", "failed"})
    /\ [](ePc \in {"done", "failed"} => pPc \in {"failed", "slides_done"})
    /\ [](ePc = "done" => eDeck # NoDeck /\ Len(eDeck.slides) = Len(pOutline))
    /\ [](ePc = "failed" => eDeck = NoDeck)
    /\ [][(ePc \in {"done", "failed"}) => (ePc' = ePc /\ eDeck' = eDeck)]_vars

C19_Witness ==
    /\ ePc = "done" /\ Len(pTasks) = 2
    /\ pTasks[1].raised /\ pTasks[2].raised
    /\ eDeck.slides[1].content = PlaceholderContent
    /\ eDeck.slides[2].content = PlaceholderContent

\* the slide text of the request, and each detector's match and confidence
\* by its formula
RouteText == rTitle \o rContent

MathMatches == MathScore(RouteText) >= 2

FlowMatches == FlowScore(RouteText) >= 2

DataMatches == ContentNumberCount(rContent) >= 3 /\ HasDataKeyword(RouteText)

MathReaches90 == MathMatches /\ MathConfidence(MathScore(RouteText)) >= QuickReturnConfidence

FlowReaches90 == FlowMatches /\ FlowConfidence(FlowScore(RouteText)) >= QuickReturnConfidence

DataReaches90 ==
    DataMatches /\ ChartConfidence(ContentNumberCount(rContent)) >= QuickReturnConfidence

\* route_slide is past the pattern pass
PatternPassDone == rPc \in {"ai_wait", "done", "raised"}

PatternPathTaken == rPc = "done" /\ rLlmCalls = 0 /\ rAnalysis = rQuick

\* C20: whenever one of the three detectors reaches confidence 90 by its
\* formula, the analysis is that detector's result and the LLM-backed
\* classifier is not invoked, also when a detector of higher priority
\* matches below 90.
C20_AnyDetectorShortCircuits ==
    PatternPassDone =>
       /\ MathReaches90 => PatternPathTaken /\ rAnalysis.visualType = "math"
       /\ FlowReaches90 /\ ~MathReaches90 =>
             PatternPathTaken /\ rAnalysis.visualType = "diagram"
       /\ DataReaches90 /\ ~MathReaches90 /\ ~FlowReaches90 =>
             PatternPathTaken /\ rAnalysis.visualType = "chart"

\* C20 (amended): the detectors are tried in priority order and only the
\* first that matches counts: the analysis is its result, without the
\* LLM-backed classifier, exactly when its confidence is at least 90; when
\* a detector of higher priority matches below 90, the LLM-backed
\* classifier is invoked whatever the later detectors would give.
C20_FirstMatchShortCircuits ==
    PatternPassDone =>
       /\ MathMatches =>
             /\ rQuick.visualType = "math"
             /\ PatternPathTaken <=> MathReaches90
       /\ ~MathMatches /\ FlowMatches =>
             /\ rQuick.visualType = "diagram"
             /\ PatternPathTaken <=> FlowReaches90
       /\ ~MathMatches /\ ~FlowMatches /\ DataMatches =>
             /\ rQuick.visualType = "chart"
             /\ PatternPathTaken <=> DataReaches90
       /\ ~MathMatches /\ ~FlowMatches /\ ~DataMatches => rQuick = NoResult
       /\ ~PatternPathTaken => rLlmCalls = 1

C20_Witness ==
    /\ rPc = "done" /\ rLlmCalls = 1
    /\ FlowReaches90 /\ MathMatches /\ ~MathReaches90
    /\ rQuick.visualType = "math" /\ rQuick.confidence = 80
    /\ rAnalysis.visualType = "none"

\* the completion returned a JSON object without a canonical visualType
TypeMissing == rLlm = "returned" /\ rResp.visualType = NoKey

TypeInvalid == rLlm = "returned" /\ rResp.visualType \notin ValidTypes \cup {NoKey}

\* C21: when the LLM response has no visualType, or one that is not among
\* the five canonical types, the analysis returned is none with a numeric
\* confidence below the routing threshold, whatever confidence the response
\* carried.
C21_TypeCoercion ==
    rPc = "done" /\ (TypeMissing \/ TypeInvalid) =>
       /\ rAnalysis.visualType = "none"
       /\ rAnalysis.confIsNumber
       /\ rAnalysis.confidence < MinConfidenceThreshold

\* the part of C21 that the code keeps: a visualType outside the canonical
\* five gives none at 30, and a missing one gives none
C21_InvalidTypeCoerced ==
    /\ rPc = "done" /\ TypeInvalid =>
          rAnalysis.visualType = "none" /\ rAnalysis.confidence = InvalidTypeConfidence
    /\ rPc = "done" /\ TypeMissing => rAnalysis.visualType = "none"

\* the LLM-backed classifier was consulted and analyze_slide returned
LlmConsulted == rPc = "done" /\ rLlmCalls = 1

\* the quick detector matched with a confidence in [70, 90)
QuickModerate ==
    /\ rQuick # NoResult
    /\ rQuick.confidence >= QuickAgreeConfidence
    /\ rQuick.confidence < QuickReturnConfidence

\* C22: when the quick detector matched with a confidence in [70, 90) and
\* the LLM classifier gives the same type, the analysis is the LLM's with
\* confidence min(100, LLM confidence + 10); in every other case in which
\* the LLM is consulted the analysis is exactly the LLM's result, and
\* nothing of the quick result is in it.
C22_AgreementBoost ==
    LlmConsulted =>
       LET ai == AiAnalyze(rResp)
       IN IF QuickModerate /\ rQuick.visualType = ai.visualType
          THEN /\ rAnalysis.confidence = Min(MaxConfidence, ai.confidence + AgreementBoost)
               /\ rAnalysis.visualType = ai.visualType
               /\ rAnalysis.metadata = ai.metadata
               /\ rAnalysis.reasoning = ai.reasoning
          ELSE rAnalysis = ai

C22_Witness ==
    /\ LlmConsulted /\ QuickModerate
    /\ rQuick.visualType = "math" /\ rQuick.confidence = 80
    /\ rResp.visualType = "math" /\ rResp.confidence = 85
    /\ rAnalysis.confidence = 95

\* create_outline returned the outline of a parsed response
OutlineGenerated == pPc = "outlined" /\ pLlm = "slides"

LevelOf(plan) == BloomIndex(Get(plan.bloom_level, "UNDERSTAND"))

\* entry i + 1 has a level below that of entry i, both levels being valid
Regresses(slides, i) ==
    /\ LevelOf(slides[i]) # -1 /\ LevelOf(slides[i + 1]) # -1
    /\ LevelOf(slides[i + 1]) < LevelOf(slides[i])

\* C23: for every generated outline, each adjacent pair of entries whose
\* cognitive level regresses by one step or more has a logged warning, and
\* the outline returned is the generated one, unchanged.
C23_WarnDontFail ==
    OutlineGenerated =>
       /\ pOutline = pGenerated
       /\ \A i \in 1..(Len(pGenerated) - 1) :
             Regresses(pGenerated, i) => Warning(i, "regression") \in pWarnings

\* the part of C23 that the code keeps: the generated outline is returned
\* unchanged whatever its levels, and a regression of two steps or more is
\* warned about
C23_OutlineKept ==
    OutlineGenerated =>
       /\ pOutline = pGenerated
       /\ \A i \in 1..(Len(pGenerated) - 1) :
             (Regresses(pGenerated, i)
                 /\ LevelOf(pGenerated[i + 1]) < LevelOf(pGenerated[i]) - 1)
             <=> Warning(i, "regression") \in pWarnings


\* the completion call behind entry i's content stream failed: the joined
\* chunks are the text stream_completion yields from its except branch
ContentCallFailed(i) ==
    /\ i \in DOMAIN pTasks
    /\ pTasks[i].content = StreamText("error", "content")

\* C24: whenever the completion call that generates a slide's content
\* fails, the slide returned for that outline entry is the placeholder slide
\* (fixed regenerate message, empty notes, imageQuery null), and the error
\* text of the failed call is never the slide's content.
C24_PlaceholderOnStreamFailure ==
    pPc = "slides_done" =>
        \A i \in DOMAIN pSlides :
            ContentCallFailed(i) =>
                /\ pSlides[i] = PlaceholderSlide(pOutline[i], i - 1)
                /\ pSlides[i].content # StreamText("error", "content")

\* C24, the part the code keeps: an entry whose task raised is returned as
\* the placeholder slide.
C24_PlaceholderOnRaise ==
    pPc = "slides_done" =>
        \A i \in DOMAIN pSlides :
            pTasks[i].raised => pSlides[i] = PlaceholderSlide(pOutline[i], i - 1)


\* derive has returned a SUPPORT or EXTENSION deck
DerivedReturned == dPc = "done" /\ ~IsCoreLevel(dLevel)

\* C25: in every deck returned by derive for SUPPORT or EXTENSION the
\* slides' order values are unique and contiguous: each surviving slide's
\* order is its position (zero- or one-based) in the filtered set, not the
\* order it had in the core deck.
C25_OrderRenumbered ==
    DerivedReturned =>
        \E base \in {0, 1} :
            \A i \in DOMAIN dResult.slides : dResult.slides[i].order = base + i - 1

\* C25, what the code does: every slide of the derived deck carries the
\* order of the core slide it was copied from, and the orders are unique.
C25_OrderCopied ==
    DerivedReturned =>
        /\ \A i \in DOMAIN dResult.slides :
               dResult.slides[i].order = dTasks[i].slide.order
        /\ \A i, j \in DOMAIN dResult.slides :
               dResult.slides[i].order = dResult.slides[j].order => i = j


\* the deck a derivation returns when it runs alone on the core deck with
\* the given outcomes of its rewrite tasks (DeriveStart, RewriteReturn,
\* DeriveJoin)
AloneDeck(core, level, outcomes) ==
    LET filtered == FilterSlidesByBloom(core.slides, level)
    IN DerivedDeck(core, level,
                   [i \in DOMAIN filtered |->
                      IF outcomes[i] = "raised" THEN filtered[i]
                      ELSE DifferentiatedSlide(filtered[i], level, outcomes[i])])

TaskOutcomes(tasks) == [i \in DOMAIN tasks |-> tasks[i].outcome]

\* AloneDeck is what generate_differentiated_deck returns in SpecDiff.
AloneDeckIsDerive ==
    DerivedReturned => dResult = AloneDeck(dCore, dLevel, TaskOutcomes(dTasks))

\* no step changes a Slide object that exists
NoSlideWritten == \A a \in DOMAIN xHeap : xHeap'[a] = xHeap[a]

\* C26: when the SUPPORT and EXTENSION derivations of the same core deck
\* run concurrently, for every interleaving of their rewrite tasks the core
\* deck (slides, metadata, structure) is unchanged, each derived deck equals
\* the deck that derivation returns when run alone, and no rewrite task
\* writes to a slide of the core deck or of the other derivation.
C26_ConcurrentDerivations ==
    /\ [](xPc # "idle" => SlidesOf(xHeap, xCore) = CoreDeckOf(xLevels))
    /\ [](xPc = "done" =>
            \A level \in DerivedLevels :
                SlidesOf(xHeap, xDer[level].result)
                    = AloneDeck(CoreDeckOf(xLevels), level, TaskOutcomes(xDer[level].tasks)))
    /\ [][NoSlideWritten]_vars

\* both derivations returned; each rewrote two slides or more, and both
\* rewrote the first slide of the core deck
C26_Witness ==
    /\ xPc = "done"
    /\ \A level \in DerivedLevels :
           /\ Len(xDer[level].tasks) >= 2
           /\ xDer[level].tasks[1].slide = CoreAddr(1)
           /\ \A i \in DOMAIN xDer[level].tasks : xDer[level].tasks[i].outcome = "ok"
    /\ Len(xDer["SUPPORT"].tasks) # Len(xDer["EXTENSION"].tasks)


\* the content holds no match of any pattern of the helper that was called
NoMatchingData ==
    CASE hHelper = "classifier_chart" -> FlatMap(DataPointsOf, hContent) = <<>>
      [] hHelper = "classifier_math" ->
           /\ \A i \in DOMAIN hContent : ~StartsEquation(hContent[i])
           /\ FlatMap(LatexCommands, hContent) = <<>>
      [] hHelper = "renderer_chart" ->
           /\ FlatMap(DataPointsOf, hContent) = <<>>
           /\ FlatMap(ParenPointsOf, hContent) = <<>>
      [] hHelper = "renderer_math" ->
           /\ FlatMap(DollarEquations, hContent) = <<>>
           /\ FlatMap(SimpleEquations, hContent) = <<>>
      [] OTHER -> FALSE

\* C27: every list produced by an extraction helper (classifier chart data
\* points, classifier math equations, chart-renderer data points,
\* math-renderer equations) has at most 10 items for every input text, and
\* is the empty list when the text holds no matching data.
C27_ExtractionCapped ==
    hPc = "done" =>
        /\ Len(hResult) <= DataPointLimit
        /\ NoMatchingData => hResult = <<>>

\* C27, what the code keeps: the three other helpers cap their list (the
\* classifier's equations at 5, the renderers' lists at 10), and every
\* helper returns the empty list when nothing matches.
C27_OtherHelpersCapped ==
    hPc = "done" =>
        /\ hHelper = "classifier_math" => Len(hResult) <= MathEquationLimit
        /\ hHelper \in {"renderer_chart", "renderer_math"} => Len(hResult) <= DataPointLimit
        /\ NoMatchingData => hResult = <<>>


\* the outline entry names a cognitive level or a slide type that is not a
\* member of its enumeration
MalformedEnum(plan) ==
    \/ plan.bloom_level \notin BloomLevels \cup {NoKey}
    \/ plan.slideType \notin SlideTypes \cup {NoKey}

\* generate_complete_deck ended after the content expansion returned
CompleteEnded ==
    eKind = "complete" /\ ePc \in {"done", "failed"} /\ pPc = "slides_done"

\* the level an entry is assembled with when malformed values fall back
FallbackLevel(plan) ==
    IF plan.bloom_level \in BloomLevels THEN plan.bloom_level ELSE "UNDERSTAND"

\* C28: a malformed enum value is a per-slide failure, not a request
\* failure: in the complete pipeline an outline entry whose cognitive level
\* or slide type is not a member of the enumeration is assembled with the
\* fallback value (UNDERSTAND, CONCEPT) and the request still completes
\* with one slide per outline entry.
C28_EnumFallback ==
    (CompleteEnded /\ \E i \in DOMAIN pOutline : MalformedEnum(pOutline[i])) =>
        /\ ePc = "done"
        /\ Len(eDeck.slides) = Len(pOutline)
        /\ \A i \in DOMAIN eDeck.slides :
               eDeck.slides[i].bloom_level = FallbackLevel(pOutline[i])

\* C28, what the code does: an entry with a malformed enum value ends the
\* request with the failure outcome; only an entry that lacks the key is
\* assembled with the default value, one slide per outline entry.
C28_MalformedEnumFails ==
    CompleteEnded =>
        IF \E i \in DOMAIN pOutline : MalformedEnum(pOutline[i])
        THEN ePc = "failed" /\ eDeck = NoDeck
        ELSE /\ ePc = "done"
             /\ Len(eDeck.slides) = Len(pOutline)
             /\ \A i \in DOMAIN eDeck.slides :
                    eDeck.slides[i].bloom_level = Get(pOutline[i].bloom_level, "UNDERSTAND")


\* create_outline returned
OutlineReturned == pPc \in {"outlined", "gathering", "slides_done"}

\* C29: create_outline never returns an empty outline: for every outcome of
\* the completion call, including a parsed response without a slides key or
\* with an empty slides list, the returned outline has at least one entry
\* (the generated entries or the 4-entry fallback skeleton).
C29_OutlineNeverEmpty ==
    OutlineReturned => Len(pOutline) >= 1

\* C29, what the code does: the outline is the fallback skeleton when the
\* completion call or the parse raised or the slides value is null, and
\* otherwise the slides list of the response as it is, empty when the key
\* is missing or the list is empty.
C29_OutlineIsResponse ==
    OutlineReturned =>
        \/ pOutline = FallbackOutline
        \/ pOutline = <<>>
        \/ Len(pOutline) >= 1 /\ \A i \in DOMAIN pOutline : pOutline[i] \in PlanPool


\* the completion returned a deck with a title and slides that each carry
\* title, content and order
WellFormedDeck ==
    /\ kResult.ok /\ kResult.hasTitle /\ kResult.hasSlides
    /\ kResult.slides # <<>>
    /\ \A i \in DOMAIN kResult.slides :
           LET entry == kResult.slides[i]
           IN entry.hasTitle /\ entry.contentKind # "missing" /\ entry.hasOrder

\* the failures of a stage: the request check, the completion, a key the
\* endpoint reads, the routing
StageFailures == {"no_topics", "completion", "key_error", "routing"}

\* C30: when the completion returns a well-formed deck and routing and
\* rendering complete, generate_deck and modify_deck end with a deck
\* response carrying the assembled slides in order; they reach the
\* request-level failure outcome only when a stage actually failed.
C30_FailureOnlyOnStageFailure ==
    (kPc = "failed" /\ WellFormedDeck) => kFailure \in StageFailures

\* C30, what the code does: with a well-formed deck the slides are
\* assembled, one per entry and in the entries' sequence, and building the
\* response then raises, which ends the request with the failure outcome.
C30_ResponseAlwaysRaises ==
    (kPc = "failed" /\ WellFormedDeck /\ kFailure # "routing") =>
        /\ kFailure = "response"
        /\ Len(kSlides) = Len(kResult.slides)
        /\ \A i \in DOMAIN kSlides : kSlides[i].title = kResult.slides[i].title

====
